---- MODULE Spec2Model ----
(***************************************************************************)
(* Verification model of the ICB Place Based Tool aggregation / index      *)
(* pipeline (src/utils.py: aggregate, get_index, get_data_for_all_years,   *)
(* excel_round) and of the fixed column lists of                           *)
(* src/ICB_Place_Based_Tool.py.                                            *)
(*                                                                         *)
(* Numbers.  A Python value is a record [t, k, n, d]: t is the Python      *)
(* type, k the kind ("fin" finite, "nan", "inf", "obj" for a non-number),  *)
(* and a finite number is the reduced fraction n/d.  binary64 arithmetic   *)
(* is taken to be exact: sums and quotients are exact rationals, and       *)
(* str(float) is the decimal expansion of that rational.  Representation   *)
(* error of binary64 (an error of one unit in the 16th digit) is below the *)
(* resolution of this model.                                               *)
(***************************************************************************)
EXTENDS Integers, Sequences, FiniteSets, TLC

----------------------------------------------------------------------------
(* Bounds of the model *)

\* largest coefficient of the decimals fed to excel_round
MaxCoef == 40
\* largest number of decimal places of those decimals
MaxDec == 2
\* number of GP practices in the data folder's tables
NumPractices == 5
\* number of yearly datasets (files of the data folder)
NumYears == 2
\* largest number of places in the session
MaxPlaces == 3

----------------------------------------------------------------------------
(* Python numbers *)

Abs(x) == IF x < 0 THEN -x ELSE x

Sign(x) == IF x < 0 THEN -1 ELSE 1

RECURSIVE GCD(_, _)
GCD(a, b) == IF b = 0 THEN a ELSE GCD(b, a % b)

RECURSIVE Pow10(_)
Pow10(q) == IF q = 0 THEN 1 ELSE 10 * Pow10(q - 1)

\* a finite number n/d (d > 0) of Python type t, as a reduced fraction
Num(t, n, d) ==
    LET g == GCD(Abs(n), d)
    IN  [t |-> t, k |-> "fin", n |-> Sign(n) * (Abs(n) \div g), d |-> d \div g]

Float(n, d) == Num("float", n, d)

PyInt(n) == Num("int", n, 1)

NaN == [t |-> "float", k |-> "nan", n |-> 0, d |-> 1]

PosInf == [t |-> "float", k |-> "inf", n |-> 1, d |-> 1]

NegInf == [t |-> "float", k |-> "inf", n |-> -1, d |-> 1]

\* a value that is neither int nor float: a str, None, a Decimal, ...
Obj(t, id) == [t |-> t, k |-> "obj", n |-> id, d |-> 1]

IsNumeric(v) == v.t \in {"int", "float"}

----------------------------------------------------------------------------
(* excel_round, src/utils.py:270-293 *)

\* outcome of a call: a returned value, or an exception leaving the call
Return(v) == [exc |-> "none", val |-> v]

Raise(e) == [exc |-> e, val |-> Obj("NoneType", 0)]

\* the number of decimal places in the repr of the terminating decimal n/d
RECURSIVE DecimalPlaces(_, _)
DecimalPlaces(d, q) == IF Pow10(q) % d = 0 THEN q ELSE DecimalPlaces(d, q + 1)

\* -exponent of Decimal(str(precision)): str of an int has no decimal point,
\* str of a float has at least one decimal ("1.0", "0.5", "0.001")
QuantizeExponent(precision) ==
    IF precision.t = "int" THEN 0
    ELSE LET q == DecimalPlaces(precision.d, 0) IN IF q < 1 THEN 1 ELSE q

\* the digits of r/d after the decimal point, q of them, by long division;
\* returns <<digits as an integer, remainder>>
RECURSIVE LongDiv(_, _, _, _)
LongDiv(acc, r, d, q) ==
    IF q = 0 THEN <<acc, r>>
    ELSE LongDiv(acc * 10 + ((r * 10) \div d), (r * 10) % d, d, q - 1)

\* quantize with the default rounding of the decimal context, ROUND_HALF_EVEN
QuantizeHalfEven(n, d, q) ==
    LET a    == Abs(n)
        ld   == LongDiv(a \div d, a % d, d, q)
        m    == ld[1]
        r    == ld[2]
        up   == IF 2 * r > d THEN m + 1
                ELSE IF 2 * r < d THEN m
                ELSE IF m % 2 = 0 THEN m ELSE m + 1
    IN  Float(Sign(n) * up, Pow10(q))

\* Decimal(n/d).quantize(10^-q, rounding=ROUND_HALF_UP): ties away from zero
QuantizeHalfUp(n, d, q) ==
    LET a    == Abs(n)
        ld   == LongDiv(a \div d, a % d, d, q)
        m    == ld[1]
        r    == ld[2]
        up   == IF 2 * r >= d THEN m + 1 ELSE m
    IN  Float(Sign(n) * up, Pow10(q))

\* Python 3 round(x) of the float n/d: nearest integer, ties to the even one
PyRound(n, d) ==
    LET a  == Abs(n)
        m  == a \div d
        r  == a % d
        up == IF 2 * r > d THEN m + 1
              ELSE IF 2 * r < d THEN m
              ELSE IF m % 2 = 0 THEN m ELSE m + 1
    IN  Sign(n) * up

\* precision > 1
GreaterThanOne(precision) == precision.n > precision.d

\* excel_round without the isinstance test: a non-number reaches the
\* arithmetic, which raises
ExcelRoundNoTypeCheck(number, precision) ==
    IF number.k = "fin"
    THEN IF GreaterThanOne(precision)
         THEN Return(Float(PyRound(number.n * precision.d, number.d * precision.n)
                             * precision.n, precision.d))
         ELSE Return(QuantizeHalfUp(number.n, number.d, QuantizeExponent(precision)))
    ELSE IF number.k = "nan" /\ ~GreaterThanOne(precision) THEN Return(NaN)
    ELSE Raise("NameError")

\* Every exception raised in the try block reaches the clause
\* "except (ValueError, InvalidOperation)"; InvalidOperation is not imported
\* (src/utils.py:7), so evaluating the clause raises NameError.
ExcelRound(number, precision) ==
    IF IsNumeric(number)
    THEN IF GreaterThanOne(precision)
         THEN IF number.k = "fin"
              THEN \* round(number / precision) * precision
                   LET kk == PyRound(number.n * precision.d, number.d * precision.n)
                   IN  Return(Float(kk * precision.n, precision.d))
              ELSE \* round(nan): ValueError, round(inf): OverflowError
                   Raise("NameError")
         ELSE IF number.k = "fin"
              THEN Return(QuantizeHalfUp(number.n, number.d, QuantizeExponent(precision)))
              ELSE IF number.k = "nan"
                   THEN Return(NaN)            \* quantize of a quiet NaN is NaN
                   ELSE Raise("NameError")     \* quantize of Infinity: InvalidOperation
    ELSE Return(number)

----------------------------------------------------------------------------
(* Column lists, src/ICB_Place_Based_Tool.py:111-148 *)

index_numerator ==
    << "Weighted G&A pop", "Weighted Community pop", "Weighted Mental Health pop",
       "Weighted Maternity pop", "Weighted Prescribing pop", "Overall Weighted pop",
       "Weighted Primary Care", "Weighted Primary Medical Care Need",
       "Weighted Health Inequalities pop" >>

index_names ==
    << "G&A Index", "Community Index", "Mental Health Index", "Maternity Index",
       "Prescribing Index", "Overall Core Index", "Primary Medical Care Index",
       "Primary Medical Care Need Index", "Health Inequalities Index" >>

Range(s) == {s[j] : j \in DOMAIN s}

\* the keys of the aggregations dictionary; every one is aggregated by "sum"
aggregations == {"GP pop"} \cup Range(index_numerator)

----------------------------------------------------------------------------
(* float arithmetic of pandas / numpy on non-negative columns *)

Zero == Float(0, 1)

FAdd(a, b) ==
    IF a.k = "nan" \/ b.k = "nan" THEN NaN
    ELSE IF a.k = "inf" \/ b.k = "inf" THEN PosInf
    ELSE Float(a.n * b.d + b.n * a.d, a.d * b.d)

\* true division: x/0 is inf, 0/0 and inf/inf are NaN, no exception
FDiv(a, b) ==
    IF a.k = "nan" \/ b.k = "nan" THEN NaN
    ELSE IF a.k = "inf" THEN (IF b.k = "inf" THEN NaN ELSE PosInf)
    ELSE IF b.k = "inf" THEN Zero
    ELSE IF b.n = 0 THEN (IF a.n = 0 THEN NaN ELSE PosInf)
    ELSE Float(a.n * b.d, a.d * b.n)

----------------------------------------------------------------------------
(* DataFrames: [columns |-> set of column names, rows |-> sequence of rows], *)
(* a row being a function from the column names to values                    *)

Frame(cols, rows) == [columns |-> cols, rows |-> rows]

\* df.insert(loc=0, column=c, value=v): the scalar v on every row
InsertColumn(df, c, v) ==
    Frame(df.columns \cup {c},
          [j \in DOMAIN df.rows |->
              [x \in df.columns \cup {c} |-> IF x = c THEN v ELSE df.rows[j][x]]])

\* data.query("practice_display == @place_state"): == with a list is isin
QueryGp(data, place_state) ==
    Frame(data.columns,
          SelectSeq(data.rows, LAMBDA r : r["practice_display"] \in Range(place_state)))

\* data.query("`ICB name` == @icb_state")
QueryIcb(data, icb_state) ==
    Frame(data.columns, SelectSeq(data.rows, LAMBDA r : r["ICB name"] = icb_state))

\* agg "last" in place of "sum": the value of the last row of the group
SumColumnLast(rows, key, c) ==
    LET members == {j \in DOMAIN rows : rows[j].key = key}
    IN  IF members = {} THEN Zero
        ELSE rows[CHOOSE j \in members : \A i \in members : i <= j].row[c]

RECURSIVE SumColumn(_, _, _)
SumColumn(rows, key, c) ==
    IF rows = << >> THEN Zero
    ELSE LET r == Head(rows)
         IN  IF r.key = key THEN FAdd(r.row[c], SumColumn(Tail(rows), key, c))
             ELSE SumColumn(Tail(rows), key, c)

RECURSIVE SetToSeq(_)
SetToSeq(S) ==
    IF S = {} THEN << >>
    ELSE LET x == CHOOSE y \in S : TRUE IN <<x>> \o SetToSeq(S \ {x})

\* df.groupby(on).agg(aggregations): one row per distinct value of `on`,
\* holding the sum of every aggregated column; no row for an empty df.  The
\* values of `on` are the index of the grouped frame.
GroupBySum(df, on, aggs) ==
    LET keyed == [j \in DOMAIN df.rows |-> [key |-> df.rows[j][on], row |-> df.rows[j]]]
        keys  == SetToSeq({df.rows[j][on] : j \in DOMAIN df.rows})
    IN  [columns |-> aggs,
         rows    |-> [g \in DOMAIN keys |-> [c \in aggs |-> SumColumn(keyed, keys[g], c)]],
         index   |-> keys]

----------------------------------------------------------------------------
(* aggregate, src/utils.py:117-138 *)

\* aggregate rounding its sums before they are used
aggregate_rounding_sums(df, name, on, aggs) ==
    LET df1 == IF on \notin df.columns THEN InsertColumn(df, on, name) ELSE df
        grp == GroupBySum(df1, on, aggs)
    IN  [df |-> df1,
         df_group |-> [columns |-> grp.columns,
                       rows    |-> [j \in DOMAIN grp.rows |->
                                      [c \in grp.columns |->
                                          ExcelRound(grp.rows[j][c], PyInt(1)).val]],
                       index   |-> grp.index]]

\* aggregate writing `name` into the grouping column even when df has it
aggregate_overwriting_column(df, name, on, aggs) ==
    LET df1 == InsertColumn(df, on, name)
    IN  [df |-> df1, df_group |-> GroupBySum(df1, on, aggs)]

aggregate(df, name, on, aggs) ==
    LET df1 == IF on \notin df.columns THEN InsertColumn(df, on, name) ELSE df
    IN  [df |-> df1, df_group |-> GroupBySum(df1, on, aggs)]

----------------------------------------------------------------------------
(* get_index, src/utils.py:142-169 *)

\* position of a column in index_names
IndexOf(names, c) == CHOOSE j \in DOMAIN names : names[j] = c

\* df[names] = df[numerators].div(df["GP pop"].values, axis=0)
RatioColumns(df, names, numerators) ==
    Frame(df.columns \cup Range(names),
          [j \in DOMAIN df.rows |->
              [c \in df.columns \cup Range(names) |->
                  IF c \in Range(names)
                  THEN FDiv(df.rows[j][numerators[IndexOf(names, c)]], df.rows[j]["GP pop"])
                  ELSE df.rows[j][c]]])

\* get_index without the division of the place ratio by the ICB index
get_index_no_icb_division(place_indices, icb_indices, names, numerators) ==
    [exc |-> IF Len(place_indices.rows) # Len(icb_indices.rows) THEN "ValueError" ELSE "none",
     place |-> RatioColumns(place_indices, names, numerators),
     icb |-> RatioColumns(icb_indices, names, numerators)]

\* get_index dividing the place ratio by icb_indices[index_numerator], the
\* ICB's totals, instead of icb_indices[index_names]
get_index_by_icb_totals(place_indices, icb_indices, names, numerators) ==
    LET icb == RatioColumns(icb_indices, names, numerators)
        per == RatioColumns(place_indices, names, numerators)
    IN  IF Len(place_indices.rows) # Len(icb_indices.rows)
        THEN [exc |-> "ValueError", place |-> place_indices, icb |-> icb]
        ELSE [exc |-> "none",
              place |-> Frame(per.columns,
                         [j \in DOMAIN per.rows |->
                            [c \in per.columns |->
                               IF c \in Range(names)
                               THEN FDiv(per.rows[j][c],
                                         icb.rows[j][numerators[IndexOf(names, c)]])
                               ELSE per.rows[j][c]]]),
              icb |-> icb]

\* DataFrame.div(2-D array, axis=0): the shapes must agree.  The one-row
\* array is not broadcast over a frame of another length (pandas coerces it
\* to a Series along the index and finds the lengths differ): ValueError.
get_index(place_indices, icb_indices, names, numerators) ==
    LET icb == RatioColumns(icb_indices, names, numerators)
        per == RatioColumns(place_indices, names, numerators)
    IN  IF Len(place_indices.rows) # Len(icb_indices.rows)
        THEN [exc |-> "ValueError", place |-> place_indices, icb |-> icb]
        ELSE [exc |-> "none",
              place |-> Frame(per.columns,
                         [j \in DOMAIN per.rows |->
                            [c \in per.columns |->
                               IF c \in Range(names)
                               THEN FDiv(per.rows[j][c], icb.rows[j][c])
                               ELSE per.rows[j][c]]]),
              icb |-> icb]

----------------------------------------------------------------------------
(* Inputs of excel_round *)

\* decimals c / 10^dd, the two examples of the documentation included
RoundCoefs == (-MaxCoef .. MaxCoef) \cup {2005, -2005, 25, -25, 35, 150, 250}

RoundNumbers ==
    {Float(c, Pow10(dd)) : c \in RoundCoefs, dd \in 0 .. MaxDec + 1}
    \cup {PyInt(c) : c \in RoundCoefs}
    \cup {NaN, PosInf, NegInf}
    \cup {Obj("str", 1), Obj("str", 2), Obj("NoneType", 0), Obj("Decimal", 1)}

\* precisions: 1 and 0.001 are the ones get_data_for_all_years passes, 0.01
\* is the default; the ones above 1 are exact in binary64
RoundPrecisions ==
    {PyInt(1), PyInt(0), Float(1, 1), Float(1, 2), Float(1, 10), Float(1, 100),
     Float(1, 1000), PyInt(2), PyInt(10), PyInt(100), Float(5, 2)}

----------------------------------------------------------------------------
(* The practice tables of the data folder, as get_data loads them          *)
(* (src/utils.py:21-64).  Weighted populations are given in halves.        *)

ICB1 == "NHS West Yorkshire ICB"

ICB2 == "NHS Humber and North Yorkshire ICB"

ICB3 == "NHS Yorkshire ICB"

Practices == 1 .. NumPractices

Years == 1 .. NumYears

\* the first four practices form ICB1, the others ICB2
HomeICB(p) == IF p <= 4 THEN ICB1 ELSE ICB2

\* "Registered Patients"
Pop(p) == IF p <= 4 THEN <<100, 200, 150, 50>>[p] ELSE 40 * (p - 3)

\* "Core WP", in halves
Overall(p) == IF p <= 4 THEN <<220, 380, 330, 90>>[p] ELSE 2 * Pop(p) + 7 * (p - 4)

Skew(p) == IF p <= 4 THEN <<3, -2, 5, 1>>[p] ELSE (p % 3) - 1

\* weighted population number i of index_numerator, in halves
Weighted(p, i) == Overall(p) + (i - 6) * Skew(p)

\* what a yearly file can look like:
\*   "full"     every practice, under its home ICB
\*   "closed"   practice 1 has no row
\*   "noicb2"   the practices of ICB2 have no row
\*   "merged"   the practices of ICB2 are listed under ICB3
\*   "nullmat"  the practices of ICB2 have no maternity figure (fillna(0))
\*   "nullpop"  the practices of ICB2 have no registered patients (fillna(0))
\*   "renamed"  practice 1 is listed under its code with a longer name
\* At most one of the yearly files differs from "full".
Variants == {"full", "closed", "noicb2", "merged", "nullmat", "nullpop"}

Present(p, v) ==
    /\ v = "closed" => p # 1
    /\ v = "noicb2" => HomeICB(p) # ICB2

\* practice_display is "<code>: <name>" (src/utils.py:21-64); a practice is
\* denoted by the number p, and the display string of p with text appended
\* to the name by RenamedDisplay(p)
RenamedDisplay(p) == -p

\* Series.str.contains(re.escape(gp)): gp occurs somewhere in the string
StrContains(display, gp) == display = gp \/ display = RenamedDisplay(gp)

\* "LA District name" of a practice
LadOf(p) == IF p <= 2 THEN "Kirklees" ELSE IF p <= 4 THEN "Leeds" ELSE "York"

PracticeColumns == {"practice_display", "ICB name"} \cup aggregations

PracticeRow(p, v) ==
    [c \in PracticeColumns |->
        IF c = "practice_display" THEN (IF v = "renamed" /\ p = 1 THEN RenamedDisplay(p) ELSE p)
        ELSE IF c = "ICB name"
             THEN (IF v = "merged" /\ HomeICB(p) = ICB2 THEN ICB3 ELSE HomeICB(p))
        ELSE IF c = "GP pop"
             THEN (IF v = "nullpop" /\ HomeICB(p) = ICB2 THEN Zero ELSE Float(Pop(p), 1))
        ELSE IF v = "nullmat" /\ HomeICB(p) = ICB2 /\ c = "Weighted Maternity pop"
             THEN Zero
        ELSE Float(Weighted(p, IndexOf(index_numerator, c)), 2)]

PracticeTable(v) ==
    LET listed == SelectSeq([p \in Practices |-> p], LAMBDA p : Present(p, v))
    IN  Frame(PracticeColumns, [j \in DOMAIN listed |-> PracticeRow(listed[j], v)])

----------------------------------------------------------------------------
(* Place definitions of the session: name, member practices, owning ICB *)

PlaceDef(name, gps, icb) == [name |-> name, gps |-> gps, icb |-> icb]

PlaceCandidates ==
    { PlaceDef("Place A", <<1, 2>>, ICB1),
      PlaceDef("Place B", <<1, 2, 3, 4>>, ICB1),
      PlaceDef("Place C", [j \in 1 .. NumPractices - 4 |-> j + 4], ICB2),
      PlaceDef("Place D", <<1>>, ICB1) }

PlaceNames == {c.name : c \in PlaceCandidates}

\* st.session_state with the places `names` of the candidates: the list
\* `places` and, under each place name, its {"gps": [...], "icb": ...} entry
SessionOf(candidates, names) ==
    [places |-> names,
     entries |-> [nm \in Range(names) |->
                    LET c == CHOOSE c \in candidates : c.name = nm
                    IN  [gps |-> c.gps, icb |-> c.icb]]]

SessionStates ==
    { SessionOf(PlaceCandidates, names) :
      names \in { sq \in UNION {[1 .. m -> PlaceNames] : m \in 1 .. MaxPlaces} :
                    \A a, b \in DOMAIN sq : a # b => sq[a] # sq[b] } }

\* the places of the sessions whose page body is followed: the last one is
\* named like its ICB (the save accepts any name but "" and "Default Place")
PageCandidates ==
    { PlaceDef("Place A", <<1, 2>>, ICB1),
      PlaceDef("Place D", <<1>>, ICB1),
      PlaceDef("Place E", <<4>>, ICB1),
      PlaceDef(ICB1, <<3, 4>>, ICB1) }

PageNames == {c.name : c \in PageCandidates}

\* sessions of one place or of two
PageSessions ==
    { SessionOf(PageCandidates, <<a>>) : a \in PageNames }
    \cup { SessionOf(PageCandidates, <<pr[1], pr[2]>>) :
             pr \in {q \in PageNames \X PageNames : q[1] # q[2]} }

PageVariants == {"full", "closed", "renamed"}

----------------------------------------------------------------------------
(* get_data_for_all_years, src/utils.py:172-266: the pure parts *)

\* dict_obj is an insertion-ordered dict: a sequence of [key, val] items
DictKeys(d) == {d[j].key : j \in DOMAIN d}

\* a dict update that keeps, per ICB, the frame of the latest place only
DictObjUpdateLatestPlaceOnly(d, icb_state, icb_frame, place_frame) ==
    IF icb_state \notin DictKeys(d)
    THEN Append(d, [key |-> icb_state, val |-> <<icb_frame, place_frame>>])
    ELSE [j \in DOMAIN d |->
            IF d[j].key = icb_state
            THEN [key |-> d[j].key, val |-> <<icb_frame, place_frame>>]
            ELSE d[j]]

\* lines 247-250: the first place of an ICB stores the ICB's frame and its
\* own, a later place of that ICB appends its own frame only
DictObjUpdate(d, icb_state, icb_frame, place_frame) ==
    IF icb_state \notin DictKeys(d)
    THEN Append(d, [key |-> icb_state, val |-> <<icb_frame, place_frame>>])
    ELSE [j \in DOMAIN d |->
            IF d[j].key = icb_state
            THEN [key |-> d[j].key, val |-> Append(d[j].val, place_frame)]
            ELSE d[j]]

\* lines 253-257: the lists of the dict, in key order, flattened
RECURSIVE FlatList(_)
FlatList(d) == IF d = << >> THEN << >> ELSE Head(d).val \o FlatList(Tail(d))

\* line 258: pd.concat(flat_list, ignore_index=True)
RECURSIVE ConcatRows(_)
ConcatRows(frames) ==
    IF frames = << >> THEN << >> ELSE Head(frames).rows \o ConcatRows(Tail(frames))

Concat(frames) ==
    Frame(UNION {frames[j].columns : j \in DOMAIN frames}, ConcatRows(frames))

\* sums rounded with precision 0.1
SumPrecisionTenth == Float(1, 10)

\* the precision each column of large_df is rounded with (lines 261-262)
SumPrecision == PyInt(1)

IndexPrecision == Float(1, 1000)

\* lines 261-262: every summed column through excel_round(x, 1), every index
\* column through excel_round(x, 0.001); the outcome of each cell
RoundCells(df) ==
    [j \in DOMAIN df.rows |->
        [c \in df.columns |->
            IF c \in aggregations THEN ExcelRound(df.rows[j][c], SumPrecision)
            ELSE IF c \in Range(index_names) THEN ExcelRound(df.rows[j][c], IndexPrecision)
            ELSE Return(df.rows[j][c])]]

\* an exception of excel_round leaves the .map call and the function
RoundRaises(cells) ==
    \E j \in DOMAIN cells : \E c \in DOMAIN cells[j] : cells[j][c].exc # "none"

RoundTable(df) ==
    LET cells == RoundCells(df)
    IN  [raises |-> RoundRaises(cells),
         frame  |-> Frame(df.columns,
                      [j \in DOMAIN cells |-> [c \in DOMAIN cells[j] |-> cells[j][c].val]])]

----------------------------------------------------------------------------
(* State *)

VARIABLES
    number,        \* excel_round: argument `number`
    precision,     \* excel_round: argument `precision`
    rounded,       \* outcome of excel_round(number, precision), or "pending"
    rerounded,     \* outcome of excel_round on the returned value, or "pending"
    loaded,        \* year -> practice table read by get_data (kept by its cache)
    dataset_dict,  \* year -> table; get_data_for_all_years overwrites entries
    session_state, \* [places, entries]
    pc,            \* "idle" | "loop" in get_data_for_all_years | "returned" | "raised"
    year,          \* the key of dataset_dict the outer loop is at
    place_no,      \* position in session_state.places of the inner loop
    dict_obj,      \* the per-year dict of frames by ICB
    place_indices, \* the place frame of the last iteration, after get_index
    icb_indices,   \* the ICB frame of the last iteration, after get_index
    place_groupby, \* the grouped place frame aggregate returned, last iteration
    icb_groupby,   \* the grouped ICB frame aggregate returned, last iteration
    err,           \* the exception that left get_data_for_all_years, or "none"
    agg_in,        \* aggregate: the frames, `name` and `on` of three calls
    agg_out,       \* aggregate: call -> [df, df_group] returned, or "pending"
    place_name,    \* sidebar text input "Name your Place"
    selected_practices, \* the ticked practices of the sidebar
    icb_choice,    \* the ICB chosen in the sidebar
    after,         \* st.session_state.after: the place selected in the body
    clicked,       \* the button of the last script run, the place that was
                   \* active when it was pressed, and how the run ended
    previous,      \* session_state as it was when the last script run began
    session_state_dump, \* the JSON document behind the download button, as
                   \* the last script run rendered it
    group_file,    \* the downloaded file, with the session it was exported from
    selected_year, \* the time period chosen in the sidebar
    gp_no,         \* position of the map loop in group_gp_list
    messages,      \* practices reported as not available, in order
    lat,           \* practices that got a marker, in order
    displayed,     \* metric column -> value shown for the active place
    selected_lads, \* the ticked local authority districts (kept in table order
                   \* by the code, so a set here)
    practice_list, \* st.session_state.practice_list: rows [gp, tick]
    last_icb_choice,    \* st.session_state['last_icb_choice']
    last_selected_lads, \* st.session_state['last_selected_lads']
    edited_rows    \* the tick edits the practice data editor holds: row -> tick

roundVars == <<number, precision, rounded, rerounded>>

\* the variables of a call of get_data_for_all_years, the session excepted
runVars == <<loaded, dataset_dict, pc, year, place_no, dict_obj, place_indices,
             icb_indices, place_groupby, icb_groupby, err>>

coreVars == <<loaded, dataset_dict, session_state, pc, year, place_no, dict_obj,
              place_indices, icb_indices, place_groupby, icb_groupby, err>>

aggVars == <<agg_in, agg_out>>

sidebarVars == <<place_name, selected_practices, icb_choice, after, clicked, previous,
                 session_state_dump, group_file>>

\* the body of the page: map loop and metrics
bodyVars == <<selected_year, gp_no, messages, lat, displayed>>

\* the practice selection of the sidebar
selectVars == <<selected_lads, practice_list, last_icb_choice, last_selected_lads,
                edited_rows>>

uiVars == <<bodyVars, selectVars>>

vars == <<number, precision, rounded, rerounded, loaded, dataset_dict, session_state,
          pc, year, place_no, dict_obj, place_indices, icb_indices, place_groupby,
          icb_groupby, err, agg_in, agg_out, place_name, selected_practices,
          icb_choice, after, clicked, previous, session_state_dump, group_file,
          selected_year, gp_no, messages, lat, displayed, selected_lads,
          practice_list, last_icb_choice, last_selected_lads, edited_rows>>

Pending == [exc |-> "pending", val |-> Obj("NoneType", 0)]

NoFrame == Frame({}, << >>)

\* the three calls of aggregate: on the rows a, on the rows b, on both
AggCalls == {"a", "b", "ab"}

\* no call of aggregate under observation
AggIdle ==
    /\ agg_in = [a |-> NoFrame, b |-> NoFrame, ab |-> NoFrame, name |-> "", on |-> ""]
    /\ agg_out = [c \in AggCalls |-> Pending]

\* no file downloaded yet
NoFile == [doc |-> << >>, exported |-> [places |-> << >>, entries |-> << >>]]

\* no button pressed yet: the body shows the last place of the list
SidebarIdle ==
    /\ place_name = ""
    /\ selected_practices = << >>
    /\ icb_choice = "NHS West Yorkshire ICB"
    /\ after = session_state.places[Len(session_state.places)]
    /\ clicked = [button |-> "none", active |-> after, exc |-> "none"]
    /\ previous = session_state
    /\ session_state_dump = Pending
    /\ group_file = NoFile

\* the body has not run
BodyIdle ==
    /\ selected_year = 1
    /\ gp_no = 1
    /\ messages = << >>
    /\ lat = << >>
    /\ displayed = Pending

\* no practice list in the session yet
SelectIdle ==
    /\ selected_lads = {}
    /\ practice_list = << >>
    /\ last_icb_choice = ""
    /\ last_selected_lads = {}
    /\ edited_rows = << >>

----------------------------------------------------------------------------
(* Calls of excel_round *)

InitRound ==
    /\ number \in RoundNumbers
    /\ precision \in RoundPrecisions
    /\ rounded = Pending
    /\ rerounded = Pending
    /\ loaded = [y \in Years |-> PracticeTable("full")]
    /\ dataset_dict = loaded
    /\ session_state = CHOOSE ss \in SessionStates : ss.places = <<"Place A">>
    /\ pc = "idle"
    /\ year = 1
    /\ place_no = 1
    /\ dict_obj = << >>
    /\ place_indices = NoFrame
    /\ icb_indices = NoFrame
    /\ place_groupby = NoFrame
    /\ icb_groupby = NoFrame
    /\ err = "none"
    /\ AggIdle
    /\ SidebarIdle
    /\ BodyIdle
    /\ SelectIdle

\* excel_round(number, precision)
RoundCall ==
    /\ rounded = Pending
    /\ rounded' = ExcelRound(number, precision)
    /\ UNCHANGED <<number, precision, rerounded>>
    /\ UNCHANGED <<coreVars, aggVars, sidebarVars, uiVars>>

\* excel_round(excel_round(number, precision), precision)
RoundAgain ==
    /\ rounded.exc = "none"
    /\ rerounded = Pending
    /\ rerounded' = ExcelRound(rounded.val, precision)
    /\ UNCHANGED <<number, precision, rounded>>
    /\ UNCHANGED <<coreVars, aggVars, sidebarVars, uiVars>>

NextRound == RoundCall \/ RoundAgain

SpecRound == InitRound /\ [][NextRound]_vars

----------------------------------------------------------------------------
(* get_data_for_all_years(dataset_dict, st.session_state, ...),            *)
(* src/ICB_Place_Based_Tool.py:590                                         *)

\* the call: dataset_dict holds the loaded tables (lines 201-207)
Init ==
    /\ number = Zero
    /\ precision = SumPrecision
    /\ rounded = Pending
    /\ rerounded = Pending
    /\ loaded \in {[y \in Years |-> PracticeTable(IF y = odd THEN v ELSE "full")] :
                      odd \in Years, v \in Variants}
    /\ dataset_dict = loaded
    /\ session_state \in SessionStates
    /\ pc = "loop"
    /\ year = 1
    /\ place_no = 1
    /\ dict_obj = << >>
    /\ place_indices = NoFrame
    /\ icb_indices = NoFrame
    /\ place_groupby = NoFrame
    /\ icb_groupby = NoFrame
    /\ err = "none"
    /\ AggIdle
    /\ SidebarIdle
    /\ BodyIdle
    /\ SelectIdle

\* one iteration of "for place in session_state.places", lines 223-250
PlaceIteration ==
    /\ pc = "loop"
    /\ place_no <= Len(session_state.places)
    /\ LET place       == session_state.places[place_no]
           place_state == session_state.entries[place].gps
           icb_state   == session_state.entries[place].icb
           data        == dataset_dict[year]
           pa  == aggregate(QueryGp(data, place_state), place, "Place Name", aggregations)
           ia  == aggregate(QueryIcb(data, icb_state), icb_state, "ICB name", aggregations)
           gi  == get_index(pa.df_group, ia.df_group, index_names, index_numerator)
           icb_frame   == InsertColumn(gi.icb, "Place / ICB", icb_state)
           place_frame == InsertColumn(gi.place, "Place / ICB", place)
       IN  /\ place_groupby' = pa.df_group
           /\ icb_groupby' = ia.df_group
           /\ IF gi.exc # "none"
              THEN /\ pc' = "raised"
                   /\ err' = gi.exc
                   /\ place_indices' = gi.place
                   /\ icb_indices' = gi.icb
                   /\ UNCHANGED <<dict_obj, place_no>>
              ELSE /\ place_indices' = place_frame
                   /\ icb_indices' = icb_frame
                   /\ dict_obj' = DictObjUpdate(dict_obj, icb_state, icb_frame, place_frame)
                   /\ place_no' = place_no + 1
                   /\ UNCHANGED <<pc, err>>
    /\ UNCHANGED <<loaded, dataset_dict, session_state, year>>
    /\ UNCHANGED <<roundVars, aggVars, sidebarVars, uiVars>>

\* the end of a year that keeps large_df in a fresh dict and leaves the
\* caller's dataset_dict alone
YearEndKeepingInput ==
    /\ pc = "loop"
    /\ place_no > Len(session_state.places)
    /\ IF RoundTable(Concat(FlatList(dict_obj))).raises
       THEN /\ pc' = "raised"
            /\ err' = "NameError"
            /\ UNCHANGED <<year, place_no, dict_obj>>
       ELSE /\ IF year < NumYears
               THEN /\ year' = year + 1
                    /\ place_no' = 1
                    /\ dict_obj' = << >>
                    /\ pc' = "loop"
               ELSE /\ pc' = "returned"
                    /\ UNCHANGED <<year, place_no, dict_obj>>
            /\ err' = "none"
    /\ UNCHANGED <<loaded, dataset_dict, session_state, place_indices, icb_indices,
                   place_groupby, icb_groupby>>
    /\ UNCHANGED <<roundVars, aggVars, sidebarVars, uiVars>>

\* the end of one iteration of "for filename, data in dataset_dict.items()",
\* lines 252-264, and the return of line 266 after the last one
YearEnd ==
    /\ pc = "loop"
    /\ place_no > Len(session_state.places)
    /\ LET large_df == RoundTable(Concat(FlatList(dict_obj)))
       IN  IF large_df.raises
           THEN /\ pc' = "raised"
                /\ err' = "NameError"
                /\ UNCHANGED <<dataset_dict, year, place_no, dict_obj>>
           ELSE /\ dataset_dict' = [dataset_dict EXCEPT ![year] = large_df.frame]
                /\ IF year < NumYears
                   THEN /\ year' = year + 1
                        /\ place_no' = 1
                        /\ dict_obj' = << >>
                        /\ pc' = "loop"
                   ELSE /\ pc' = "returned"
                        /\ UNCHANGED <<year, place_no, dict_obj>>
                /\ err' = "none"
    /\ UNCHANGED <<loaded, session_state, place_indices, icb_indices,
                   place_groupby, icb_groupby>>
    /\ UNCHANGED <<roundVars, aggVars, sidebarVars, uiVars>>

Next == PlaceIteration \/ YearEnd

Spec == Init /\ [][Next]_vars

----------------------------------------------------------------------------
(* Calls of aggregate (src/utils.py:117-138) on the rows of two disjoint   *)
(* sets of practices of one yearly table and on the rows of their union    *)

\* the rows of the practices S, in table order
RowsOfPractices(data, S) ==
    Frame(data.columns, SelectSeq(data.rows, LAMBDA r : r["practice_display"] \in S))

\* `on` and `name` as get_data_for_all_years passes them (lines 229, 235)
GroupingArgs ==
    {[on |-> "Place Name", name |-> "Place A"], [on |-> "ICB name", name |-> ICB1]}

\* two disjoint sets of practices
DisjointPairs ==
    {pr \in (SUBSET Practices) \X (SUBSET Practices) : pr[1] \cap pr[2] = {}}

AggregateInputs ==
    {[a    |-> RowsOfPractices(PracticeTable(v), pr[1]),
      b    |-> RowsOfPractices(PracticeTable(v), pr[2]),
      ab   |-> RowsOfPractices(PracticeTable(v), pr[1] \cup pr[2]),
      name |-> g.name,
      on   |-> g.on] :
        v \in Variants, g \in GroupingArgs, pr \in DisjointPairs}

InitAggregate ==
    /\ number = Zero
    /\ precision = SumPrecision
    /\ rounded = Pending
    /\ rerounded = Pending
    /\ loaded = [y \in Years |-> PracticeTable("full")]
    /\ dataset_dict = loaded
    /\ session_state = CHOOSE ss \in SessionStates : ss.places = <<"Place A">>
    /\ pc = "idle"
    /\ year = 1
    /\ place_no = 1
    /\ dict_obj = << >>
    /\ place_indices = NoFrame
    /\ icb_indices = NoFrame
    /\ place_groupby = NoFrame
    /\ icb_groupby = NoFrame
    /\ err = "none"
    /\ agg_in \in AggregateInputs
    /\ agg_out = [c \in AggCalls |-> Pending]
    /\ SidebarIdle
    /\ BodyIdle
    /\ SelectIdle

\* df, df_group = aggregate(agg_in[c], name, on, aggregations); df is the
\* frame that was passed in, as the call leaves it
AggregateCall(c) ==
    /\ agg_out[c] = Pending
    /\ agg_out' = [agg_out EXCEPT
                      ![c] = Return(aggregate(agg_in[c], agg_in.name, agg_in.on, aggregations))]
    /\ UNCHANGED <<agg_in, roundVars, coreVars, sidebarVars, uiVars>>

NextAggregate == \E c \in AggCalls : AggregateCall(c)

SpecAggregate == InitAggregate /\ [][NextAggregate]_vars

----------------------------------------------------------------------------
(* The place collection of the session, src/ICB_Place_Based_Tool.py.       *)
(* st.session_state is one key space: the key "places" holds the list of   *)
(* place names and every place name is itself a key, holding the place's   *)
(* {"gps": [...], "icb": ...} dict.  session_state.entries is that key     *)
(* space without "places"; session_state.places is what iterating          *)
(* st.session_state.places gives.                                          *)

Entry(gps, icb) == [gps |-> gps, icb |-> icb]

\* lines 73-82 and 460-479: the built-in place, four practices of ICB1
DefaultPlaceEntry == Entry(<<1, 2, 3, 4>>, ICB1)

Session(places, entries) == [places |-> places, entries |-> entries]

\* del st.session_state[k]
DelKey(entries, k) == [x \in DOMAIN entries \ {k} |-> entries[x]]

\* st.session_state[k] = v
SetKey(entries, k, v) == [x \in DOMAIN entries \cup {k} |-> IF x = k THEN v ELSE entries[x]]

\* a place saved under the name "places" has replaced the list by its dict
PlacesIsDict(ss) == "places" \in DOMAIN ss.entries

\* iterating, len() and `in` on that dict go over its keys
DictView == <<"gps", "icb">>

\* del places[places.index(k)]: the first occurrence of k
RemoveFirst(places, k) ==
    LET at == CHOOSE j \in DOMAIN places : places[j] = k /\ \A i \in 1 .. j - 1 : places[i] # k
    IN  SubSeq(places, 1, at - 1) \o SubSeq(places, at + 1, Len(places))

\* lines 379-385: one item per place of the list, in list order, then the
\* item "places" holding the list.  When the key "places" holds a dict,
\* dict.fromkeys takes its keys "gps" and "icb", and st.session_state["gps"]
\* raises KeyError.
SessionStateDict(ss) ==
    IF PlacesIsDict(ss) THEN Raise("KeyError")
    ELSE Return([j \in 1 .. Len(ss.places) |->
                    [key |-> ss.places[j], kind |-> "dict", val |-> ss.entries[ss.places[j]]]]
                \o <<[key |-> "places", kind |-> "list", val |-> ss.places]>>)

JsonString(x) == [type |-> "string", s |-> x]

JsonArray(list) == [type |-> "array", items |-> [j \in DOMAIN list |-> JsonString(list[j])]]

\* a place definition {"gps": [...], "icb": ...} as a JSON object
JsonPlace(entry) ==
    [type |-> "object",
     members |-> << [key |-> "gps", val |-> JsonArray(entry.gps)],
                    [key |-> "icb", val |-> JsonString(entry.icb)] >>]

\* line 388, json.dumps(session_state_dict, indent=4, sort_keys=False): the
\* members of the top-level object in insertion order
JsonDumps(d) ==
    [j \in DOMAIN d |->
        [key |-> d[j].key,
         val |-> IF d[j].kind = "list" THEN JsonArray(d[j].val) ELSE JsonPlace(d[j].val)]]

\* lines 379-388
Dump(ss) ==
    LET d == SessionStateDict(ss)
    IN  IF d.exc # "none" THEN d ELSE Return(JsonDumps(d.val))

\* the value of the last member named k of a JSON object
JsonMember(members, k) ==
    members[CHOOSE j \in DOMAIN members :
                /\ members[j].key = k
                /\ \A i \in DOMAIN members : members[i].key = k => i <= j].val

JsonList(v) == [j \in DOMAIN v.items |-> v.items[j].s]

\* the Python value of a JSON value of the document: a list for an array,
\* a dict with the keys "gps" and "icb" for an object
JsonValue(v) ==
    IF v.type = "array" THEN JsonList(v)
    ELSE [gps |-> JsonList(JsonMember(v.members, "gps")),
          icb |-> JsonMember(v.members, "icb").s]

\* line 411, json.load: the dict of the members, the last of equal keys wins
JsonLoad(doc) ==
    [k \in {doc[j].key : j \in DOMAIN doc} |-> JsonValue(JsonMember(doc, k))]

\* lines 409-418: the list is replaced by the file's list and the definition
\* of every listed place is stored; other keys of the session stay
Upload(ss, doc) ==
    LET d == JsonLoad(doc)
    IN  IF "places" \notin DOMAIN d THEN [exc |-> "KeyError", val |-> ss]
        ELSE IF \E j \in DOMAIN d["places"] : d["places"][j] \notin DOMAIN d
             THEN [exc |-> "KeyError", val |-> ss]
             ELSE Return(Session(d["places"],
                                 [k \in DOMAIN ss.entries \cup Range(d["places"]) |->
                                     IF k \in Range(d["places"]) THEN d[k]
                                     ELSE ss.entries[k]]))

\* a save that forgets the reserved name
SaveAcceptedAnyName(name, practices) == name # "" /\ practices # << >>

\* lines 319-332: the save goes on to store the place
SaveAccepted(name, practices) ==
    IF name = "" THEN FALSE
    ELSE IF practices = << >> \/ name = "Default Place" THEN FALSE
    ELSE TRUE

\* lines 335-337: "Default Place" is the only place of the list
OnlyDefaultPlace(ss) ==
    /\ Len(ss.places) <= 1
    /\ ss.places[1] = "Default Place"

\* lines 340-341: the built-in place leaves the key space and the list; a
\* save that keeps it is KeepDefaultPlace
KeepDefaultPlace(ss) == ss

RemoveDefaultPlace(ss) == Session(Tail(ss.places), DelKey(ss.entries, "Default Place"))

\* lines 343-356 and 360-373.  The test `[place_name] not in
\* st.session_state` looks up the one-element list, never the name, and no
\* key is spelled like a list: the dict is stored on every accepted save.
\* `st.session_state.places + [place_name]` raises TypeError when the key
\* "places" holds a dict.
StorePlace(ss, name, practices, icb) ==
    LET entries == SetKey(ss.entries, name, Entry(practices, icb))
        places  == IF name = "places" THEN DictView ELSE ss.places
    IN  IF name \in Range(places)
        THEN Return(Session(places, entries))
        ELSE IF "places" \in DOMAIN entries
             THEN [exc |-> "TypeError", val |-> Session(places, entries)]
             ELSE Return(Session(Append(places, name), entries))

\* the Save Place button, lines 317-373: the outcome and the session state
\* the script run leaves
SavePlace(ss, name, practices, icb) ==
    IF ~SaveAccepted(name, practices) THEN Return(ss)
    ELSE IF OnlyDefaultPlace(ss)
         THEN StorePlace(RemoveDefaultPlace(ss), name, practices, icb)
         ELSE StorePlace(ss, name, practices, icb)

\* the Delete Current Selection button, lines 455-506, with
\* st.session_state.after = selected.  "Default Group" is never a key, so
\* the built-in place is written back whenever the last place goes.
DeletePlace(ss, selected) ==
    IF selected \notin DOMAIN ss.entries
    THEN [exc |-> "KeyError", val |-> ss]
    ELSE IF Len(ss.places) <= 1
         THEN Return(Session(<<"Default Place">>,
                             SetKey(DelKey(ss.entries, selected),
                                    "Default Place", DefaultPlaceEntry)))
         ELSE Return(Session(RemoveFirst(ss.places, selected), DelKey(ss.entries, selected)))

\* what the user can type and tick in the sidebar
NameInputs == {"", "Default Place", "North", "South", "places"}

PracticeInputs ==
    {Entry(<< >>, ICB1), Entry(<<1, 2>>, ICB1), Entry(<<5>>, ICB2)}

\* the sidebar after the first script run of a session: nothing typed or
\* pressed, the download button rendered
SidebarFirstRun ==
    /\ place_name = ""
    /\ selected_practices = << >>
    /\ icb_choice = "NHS West Yorkshire ICB"
    /\ after = session_state.places[Len(session_state.places)]
    /\ clicked = [button |-> "none", active |-> after, exc |-> "none"]
    /\ previous = session_state
    /\ session_state_dump = Dump(session_state)
    /\ group_file = NoFile

\* lines 72-83: a new session
InitSession ==
    /\ number = Zero
    /\ precision = SumPrecision
    /\ rounded = Pending
    /\ rerounded = Pending
    /\ loaded = [y \in Years |-> PracticeTable("full")]
    /\ dataset_dict = loaded
    /\ session_state = Session(<<"Default Place">>,
                               [k \in {"Default Place"} |-> DefaultPlaceEntry])
    /\ pc = "idle"
    /\ year = 1
    /\ place_no = 1
    /\ dict_obj = << >>
    /\ place_indices = NoFrame
    /\ icb_indices = NoFrame
    /\ place_groupby = NoFrame
    /\ icb_groupby = NoFrame
    /\ err = "none"
    /\ AggIdle
    /\ SidebarFirstRun
    /\ BodyIdle
    /\ SelectIdle

\* lines 510-515: the selectbox keyed "after" shows the last place of the
\* list when the list has changed and keeps the user's choice otherwise
Reselect(ss) ==
    IF ss.places = session_state.places THEN after ELSE ss.places[Len(ss.places)]

\* a script run with the Save Place button pressed; the dump of lines
\* 379-388 follows the save
Save(names, inputs) ==
    \E name \in names : \E sel \in inputs :
        LET out == SavePlace(session_state, name, sel.gps, sel.icb)
        IN  /\ place_name' = name
            /\ selected_practices' = sel.gps
            /\ icb_choice' = sel.icb
            /\ previous' = session_state
            /\ session_state' = out.val
            /\ clicked' = [button |-> "save", active |-> after, exc |-> out.exc]
            /\ after' = Reselect(out.val)
            /\ session_state_dump' = IF out.exc # "none" THEN Raise(out.exc)
                                      ELSE Dump(out.val)
            /\ UNCHANGED group_file
            /\ UNCHANGED <<roundVars, runVars, aggVars, uiVars>>

SaveRun == Save(NameInputs, PracticeInputs)

\* a script run with the Delete Current Selection button pressed: the
\* sidebar, with the dump of lines 379-388, runs before the delete of lines
\* 455-506; line 482 sets `after` to "Default Place" when the last place goes
DeleteRun ==
    LET dump == Dump(session_state)
        out  == IF dump.exc # "none" THEN [exc |-> dump.exc, val |-> session_state]
                ELSE DeletePlace(session_state, after)
    IN  /\ previous' = session_state
        /\ session_state' = out.val
        /\ clicked' = [button |-> "delete", active |-> after, exc |-> out.exc]
        /\ after' = Reselect(out.val)
        /\ session_state_dump' = dump
        /\ UNCHANGED <<place_name, selected_practices, icb_choice, group_file>>
        /\ UNCHANGED <<roundVars, runVars, aggVars, uiVars>>

\* the user picks another place in the selectbox
SelectRun ==
    \E p \in Range(session_state.places) :
        /\ p # after
        /\ after' = p
        /\ previous' = session_state
        /\ clicked' = [button |-> "select", active |-> after, exc |-> "none"]
        /\ session_state_dump' = Dump(session_state)
        /\ UNCHANGED <<session_state, place_name, selected_practices, icb_choice,
                       group_file>>
        /\ UNCHANGED <<roundVars, runVars, aggVars, uiVars>>

NextSession == SaveRun \/ DeleteRun \/ SelectRun

SpecSession == InitSession /\ [][NextSession]_vars

\* the place collection of a session: the list and the definitions of the
\* listed places
Collection(ss) ==
    Session(ss.places, [k \in Range(ss.places) \cap DOMAIN ss.entries |-> ss.entries[k]])

\* the names and selections of the sessions that export and import
TransferNames == {"North", "South", "places"}

TransferInputs == {Entry(<<1, 2>>, ICB1)}

SaveBeforeTransfer == Save(TransferNames, TransferInputs)

\* the Download button of line 393: the browser saves the document the last
\* script run rendered the button with, then the script runs again
DownloadRun ==
    /\ session_state_dump.exc = "none"
    /\ group_file' = [doc |-> session_state_dump.val, exported |-> Collection(session_state)]
    /\ session_state_dump' = Dump(session_state)
    /\ previous' = session_state
    /\ clicked' = [button |-> "download", active |-> after, exc |-> "none"]
    /\ UNCHANGED <<session_state, place_name, selected_practices, icb_choice, after>>
    /\ UNCHANGED <<roundVars, runVars, aggVars, uiVars>>

\* the Submit button of the upload form, lines 402-418, with the downloaded
\* file; the form is rendered after the dump of lines 379-388
UploadRun ==
    /\ group_file # NoFile
    /\ Dump(session_state).exc = "none"
    /\ LET out == Upload(session_state, group_file.doc)
       IN  /\ session_state' = out.val
           /\ clicked' = [button |-> "upload", active |-> after, exc |-> out.exc]
           /\ after' = Reselect(out.val)
    /\ session_state_dump' = Dump(session_state)
    /\ previous' = session_state
    /\ UNCHANGED <<place_name, selected_practices, icb_choice, group_file>>
    /\ UNCHANGED <<roundVars, runVars, aggVars, uiVars>>

NextTransfer == SaveBeforeTransfer \/ DeleteRun \/ SelectRun \/ DownloadRun \/ UploadRun

SpecTransfer == InitSession /\ [][NextTransfer]_vars

----------------------------------------------------------------------------
(* The body of the page for the active place and the selected year,        *)
(* src/ICB_Place_Based_Tool.py:517-629                                      *)

\* a script run reaches the body: the loaded tables, a session, the place
\* chosen in the selectbox "after" and the time period of the sidebar
InitPage ==
    /\ number = Zero
    /\ precision = SumPrecision
    /\ rounded = Pending
    /\ rerounded = Pending
    /\ loaded \in {[y \in Years |-> PracticeTable(IF y = odd THEN v ELSE "full")] :
                      odd \in Years, v \in PageVariants}
    /\ dataset_dict = loaded
    /\ session_state \in PageSessions
    /\ pc = "map"
    /\ year = 1
    /\ place_no = 1
    /\ dict_obj = << >>
    /\ place_indices = NoFrame
    /\ icb_indices = NoFrame
    /\ place_groupby = NoFrame
    /\ icb_groupby = NoFrame
    /\ err = "none"
    /\ AggIdle
    /\ place_name = ""
    /\ selected_practices = << >>
    /\ icb_choice = "NHS West Yorkshire ICB"
    /\ after \in Range(session_state.places)
    /\ clicked = [button |-> "select", active |-> after, exc |-> "none"]
    /\ previous = session_state
    /\ session_state_dump = Dump(session_state)
    /\ group_file = NoFile
    /\ selected_year \in Years
    /\ gp_no = 1
    /\ messages = << >>
    /\ lat = << >>
    /\ displayed = Pending
    /\ SelectIdle

\* line 519
group_gp_list == session_state.entries[after].gps

\* the rows of the table `data` whose practice_display equals gp
DisplayRows(data, gp) ==
    {j \in DOMAIN data.rows : data.rows[j]["practice_display"] = gp}

\* line 537: no practice_display of the table contains gp
NotAvailable(data, gp) ==
    ~\E j \in DOMAIN data.rows : StrContains(data.rows[j]["practice_display"], gp)

\* one iteration of "for gp in group_gp_list", lines 533-551: the message
\* and `continue`, or the coordinates and the marker; Series.item() raises
\* ValueError unless exactly one row equals gp
MapIteration ==
    /\ pc = "map"
    /\ gp_no <= Len(group_gp_list)
    /\ LET gp   == group_gp_list[gp_no]
           data == dataset_dict[selected_year]
       IN  IF NotAvailable(data, gp)
           THEN /\ messages' = Append(messages, gp)
                /\ gp_no' = gp_no + 1
                /\ UNCHANGED <<lat, pc, err>>
           ELSE IF Cardinality(DisplayRows(data, gp)) # 1
                THEN /\ pc' = "raised"
                     /\ err' = "ValueError"
                     /\ UNCHANGED <<messages, lat, gp_no>>
                ELSE /\ lat' = Append(lat, gp)
                     /\ gp_no' = gp_no + 1
                     /\ UNCHANGED <<messages, pc, err>>
    /\ UNCHANGED <<loaded, dataset_dict, session_state, year, place_no, dict_obj,
                   place_indices, icb_indices, place_groupby, icb_groupby>>
    /\ UNCHANGED <<selected_year, displayed>>
    /\ UNCHANGED <<roundVars, aggVars, sidebarVars, selectVars>>

\* a body that calls get_data_for_all_years whatever the map shows
MapEndWithoutStop ==
    /\ pc = "map"
    /\ gp_no > Len(group_gp_list)
    /\ pc' = "loop"
    /\ UNCHANGED <<loaded, dataset_dict, session_state, year, place_no, dict_obj,
                   place_indices, icb_indices, place_groupby, icb_groupby, err>>
    /\ UNCHANGED <<roundVars, aggVars, sidebarVars, uiVars>>

\* lines 553-556 and 590: st.stop() when no practice got a marker, else the
\* call of get_data_for_all_years begins
MapEnd ==
    /\ pc = "map"
    /\ gp_no > Len(group_gp_list)
    /\ pc' = IF lat = << >> THEN "stopped" ELSE "loop"
    /\ UNCHANGED <<loaded, dataset_dict, session_state, year, place_no, dict_obj,
                   place_indices, icb_indices, place_groupby, icb_groupby, err>>
    /\ UNCHANGED <<roundVars, aggVars, sidebarVars, uiVars>>

\* lines 600-620, the columns the metrics are read from
metric_cols ==
    << "Overall Core Index", "G&A Index", "Community Index", "Mental Health Index",
       "Maternity Index", "Prescribing Index", "Primary Medical Care Need Index",
       "Health Inequalities Index" >>

\* "{:.2f}".format(x): the decimal with two places nearest to x, NaN as nan
FormatTwoDecimals(v) ==
    IF v.k # "fin" THEN v
    ELSE LET a  == Abs(v.n) * 100
             m  == a \div v.d
             r  == a % v.d
             up == IF 2 * r > v.d \/ (2 * r = v.d /\ m % 2 = 1) THEN m + 1 ELSE m
         IN  Float(Sign(v.n) * up, 100)

\* metric_calcs reading the last row of the frame
metric_calcs_last_row(group_need_indices, metric_index) ==
    ExcelRound(group_need_indices[Len(group_need_indices)][metric_index], Float(1, 100))

\* lines 105-108: the value of the column on the first row, through
\* excel_round(x, 0.01)
metric_calcs(group_need_indices, metric_index) ==
    ExcelRound(group_need_indices[1][metric_index], Float(1, 100))

\* lines 592-594: the rows whose discriminator is the active place
SelectedRows(data, name) == SelectSeq(data.rows, LAMBDA r : r["Place / ICB"] = name)

\* lines 590-629 after the call has returned: the metrics of the first
\* selected row; df[metric][0] raises KeyError when no row is selected
Display ==
    /\ pc = "returned"
    /\ displayed = Pending
    /\ LET df    == SelectedRows(dataset_dict[selected_year], after)
           shown == [j \in DOMAIN metric_cols |-> metric_calcs(df, metric_cols[j])]
       IN  IF df = << >>
           THEN /\ pc' = "raised"
                /\ err' = "KeyError"
                /\ UNCHANGED displayed
           ELSE IF \E j \in DOMAIN shown : shown[j].exc # "none"
                THEN /\ pc' = "raised"
                     /\ err' = "NameError"
                     /\ UNCHANGED displayed
                ELSE /\ displayed' = Return([m \in Range(metric_cols) |->
                            FormatTwoDecimals(shown[IndexOf(metric_cols, m)].val)])
                     /\ UNCHANGED <<pc, err>>
    /\ UNCHANGED <<loaded, dataset_dict, session_state, year, place_no, dict_obj,
                   place_indices, icb_indices, place_groupby, icb_groupby>>
    /\ UNCHANGED <<selected_year, gp_no, messages, lat>>
    /\ UNCHANGED <<roundVars, aggVars, sidebarVars, selectVars>>

----------------------------------------------------------------------------
(* The practice selection of the sidebar, lines 209-305, and Save Place    *)

\* line 210, utils.get_sidebar: the ICBs of the selected year's table
IcbList(y) == {loaded[y].rows[j]["ICB name"] : j \in DOMAIN loaded[y].rows}

\* lines 225-227: the districts of the ICB in the selected year
LadList(y, icb) ==
    {LadOf(loaded[y].rows[j]["practice_display"]) :
        j \in {i \in DOMAIN loaded[y].rows : loaded[y].rows[i]["ICB name"] = icb}}

\* lines 252-260: the practices of the ICB, of the ticked districts if any
filtered_practices(y, icb, lads) ==
    LET kept == SelectSeq(loaded[y].rows,
                          LAMBDA r : /\ r["ICB name"] = icb
                                     /\ (lads = {} \/ LadOf(r["practice_display"]) \in lads))
    IN  [j \in DOMAIN kept |-> kept[j]["practice_display"]]

\* lines 263-265 (tick False), line 275 (tick True)
practice_list_to_select(filtered, tick) ==
    [j \in DOMAIN filtered |-> [gp |-> filtered[j], tick |-> tick]]

\* a reset test that looks at the districts only
NeedsResetForDistrictsOnly(icb, lads) == last_selected_lads # lads

\* line 288; 'practice_list' is in the session from the first run on
NeedsReset(icb, lads) == last_icb_choice # icb \/ last_selected_lads # lads

\* lines 294-301: the table the data editor returns, its stored tick edits
\* applied to the rows of the list
practice_choice(list, edits) ==
    [j \in DOMAIN list |->
        [gp |-> list[j].gp,
         tick |-> IF j \in DOMAIN edits THEN edits[j] ELSE list[j].tick]]

\* line 305
Ticked(choice) ==
    LET rows == SelectSeq(choice, LAMBDA r : r.tick)
    IN  [j \in DOMAIN rows |-> rows[j].gp]

\* the edits a data editor holds once its input table has changed: none, or
\* (should the widget keep its state) the old ones on the rows that exist
EditsAfter(list) ==
    IF list = practice_list THEN {edited_rows}
    ELSE {<< >>, [j \in DOMAIN edited_rows \cap DOMAIN list |-> edited_rows[j]]}

\* one script run of lines 219-305 with the ICB `icb`, the ticked districts
\* `lads` and the button pressed among the two of lines 271-283, if any
SelectionRun(icb, lads, button) ==
    LET filtered == filtered_practices(selected_year, icb, lads)
        pressed  == IF button = "Select all" THEN practice_list_to_select(filtered, TRUE)
                    ELSE IF button = "Deselect all"
                         THEN practice_list_to_select(filtered, FALSE)
                         ELSE practice_list
        list     == IF NeedsReset(icb, lads) THEN practice_list_to_select(filtered, FALSE)
                    ELSE pressed
    IN  /\ icb_choice' = icb
        /\ selected_lads' = lads
        /\ practice_list' = list
        /\ last_icb_choice' = icb
        /\ last_selected_lads' = lads
        /\ edited_rows' \in EditsAfter(list)
        /\ selected_practices' = Ticked(practice_choice(list, edited_rows'))
        /\ clicked' = [button |-> "none", active |-> after, exc |-> "none"]
        /\ previous' = session_state
        /\ session_state_dump' = Dump(session_state)
        /\ UNCHANGED <<session_state, place_name, after, group_file>>
        /\ UNCHANGED <<roundVars, runVars, aggVars, bodyVars>>

\* the first script run of a session, in the first time period: the first
\* ICB of the list is chosen, nothing is ticked
InitSelect ==
    /\ number = Zero
    /\ precision = SumPrecision
    /\ rounded = Pending
    /\ rerounded = Pending
    /\ loaded \in {[y \in Years |-> PracticeTable(IF y = 1 THEN v ELSE "full")] :
                      v \in {"full", "merged"}}
    /\ dataset_dict = loaded
    /\ session_state = Session(<<"Default Place">>,
                               [k \in {"Default Place"} |-> DefaultPlaceEntry])
    /\ pc = "idle"
    /\ year = 1
    /\ place_no = 1
    /\ dict_obj = << >>
    /\ place_indices = NoFrame
    /\ icb_indices = NoFrame
    /\ place_groupby = NoFrame
    /\ icb_groupby = NoFrame
    /\ err = "none"
    /\ AggIdle
    /\ SidebarFirstRun
    /\ selected_year = 1
    /\ gp_no = 1
    /\ messages = << >>
    /\ lat = << >>
    /\ displayed = Pending
    /\ selected_lads = {}
    /\ practice_list
         = practice_list_to_select(filtered_practices(selected_year, icb_choice, {}), FALSE)
    /\ last_icb_choice = icb_choice
    /\ last_selected_lads = {}
    /\ edited_rows = << >>

\* another ICB is chosen; the district editor gets another table and shows
\* no tick
IcbChange ==
    \E icb \in IcbList(selected_year) \ {icb_choice} : SelectionRun(icb, {}, "none")

\* a district is ticked or unticked
LadTick ==
    \E d \in LadList(selected_year, icb_choice) :
        SelectionRun(icb_choice,
                     IF d \in selected_lads THEN selected_lads \ {d}
                     ELSE selected_lads \cup {d},
                     "none")

SelectAll == SelectionRun(icb_choice, selected_lads, "Select all")

DeselectAll == SelectionRun(icb_choice, selected_lads, "Deselect all")

\* the tick of a practice row is toggled in the data editor
PracticeTick ==
    \E j \in DOMAIN practice_list :
        LET shown == practice_choice(practice_list, edited_rows)
            edits == [i \in DOMAIN edited_rows \cup {j} |->
                         IF i = j THEN ~shown[j].tick ELSE edited_rows[i]]
        IN  /\ edited_rows' = edits
            /\ selected_practices' = Ticked(practice_choice(practice_list, edits))
            /\ clicked' = [button |-> "none", active |-> after, exc |-> "none"]
            /\ previous' = session_state
            /\ session_state_dump' = Dump(session_state)
            /\ UNCHANGED <<session_state, place_name, icb_choice, after, group_file>>
            /\ UNCHANGED <<selected_lads, practice_list, last_icb_choice,
                           last_selected_lads>>
            /\ UNCHANGED <<roundVars, runVars, aggVars, bodyVars>>

\* the names typed for the places that are saved from the selection
SelectNames == {"North"}

\* Save Place with the selection as it stands (lines 305, 317-373)
SaveSelection == Save(SelectNames, {Entry(selected_practices, icb_choice)})

NextSelect ==
    IcbChange \/ LadTick \/ SelectAll \/ DeselectAll \/ PracticeTick \/ SaveSelection

SpecSelect == InitSelect /\ [][NextSelect]_vars

NextPage == MapIteration \/ MapEnd \/ PlaceIteration \/ YearEnd \/ Display

SpecPage == InitPage /\ [][NextPage]_vars

----------------------------------------------------------------------------
(* Properties of excel_round, checked under SpecRound *)

\* the argument is a finite int or float and the call has returned
RoundedFinite == rounded.exc = "none" /\ IsNumeric(number) /\ number.k = "fin"

\* the spacing of the results of the decimal branch, as 1 / QuantumDen
QuantumDen == Pow10(QuantizeExponent(precision))

\* number is exactly halfway between two multiples of 1 / QuantumDen:
\* 2 * QuantumDen * number is an odd integer
HalfwayDecimal ==
    /\ (2 * QuantumDen * number.n) % number.d = 0
    /\ ((2 * QuantumDen * number.n) \div number.d) % 2 # 0

\* C5: for every numeric x and every precision p <= 1, a value exactly
\* halfway between two results is rounded away from zero: the result is the
\* neighbour of larger magnitude, |result| = |x| + 1 / (2 * QuantumDen), with
\* the sign of x.
C5_TiesAwayFromZero ==
    (RoundedFinite /\ ~GreaterThanOne(precision) /\ HalfwayDecimal) =>
        /\ rounded.val.k = "fin"
        /\ Sign(rounded.val.n) = Sign(number.n)
        /\ 2 * QuantumDen * number.d * Abs(rounded.val.n)
             = rounded.val.d * (2 * QuantumDen * Abs(number.n) + number.d)

\* excel_round(2.005, 0.01) == 2.01
C5_Witness ==
    /\ number = Float(2005, 1000)
    /\ precision = Float(1, 100)
    /\ rounded = Return(Float(201, 100))

\* number is exactly halfway between two multiples of precision
HalfwayMultiple ==
    /\ (2 * number.n * precision.d) % (number.d * precision.n) = 0
    /\ ((2 * number.n * precision.d) \div (number.d * precision.n)) % 2 # 0

\* C6: for every precision > 1 the result is the nearest multiple of
\* precision, and a value exactly halfway between two multiples goes to the
\* multiple of larger magnitude: |result| = |x| + precision / 2.
C6_HalfUpMultiples ==
    (RoundedFinite /\ GreaterThanOne(precision) /\ HalfwayMultiple) =>
        /\ rounded.val.k = "fin"
        /\ 2 * number.d * precision.d * Abs(rounded.val.n)
             = rounded.val.d * (2 * precision.d * Abs(number.n) + number.d * precision.n)

\* C7: for every non-numeric value and every precision, excel_round returns
\* the value unchanged and raises nothing.
C7_NonNumericUnchanged ==
    (rounded # Pending /\ ~IsNumeric(number)) => rounded = Return(number)

C7_Witness ==
    /\ number = Obj("str", 1)
    /\ GreaterThanOne(precision)
    /\ rounded = Return(Obj("str", 1))

\* C8: excel_round is idempotent: for every value and precision the first
\* call returns a value, and rounding that value again returns it unchanged.
C8_Idempotent ==
    /\ rounded # Pending => rounded.exc = "none"
    /\ rerounded # Pending => rerounded = rounded

----------------------------------------------------------------------------
(* The totals of a place and of an ICB in a loaded yearly table, in halves, *)
(* computed from the practice rows                                          *)

One == Float(1, 1)

\* dataset_dict[y] holds the result table of year y
Processed(y) == y < year \/ pc = "returned"

Halves(v) == v.n * (2 \div v.d)

RECURSIVE SumOver(_, _, _)
SumOver(S, y, c) ==
    IF S = {} THEN 0
    ELSE LET j == CHOOSE x \in S : TRUE
         IN  Halves(loaded[y].rows[j][c]) + SumOver(S \ {j}, y, c)

MemberRows(y, place) ==
    {j \in DOMAIN loaded[y].rows :
        \E m \in DOMAIN session_state.entries[place].gps :
            session_state.entries[place].gps[m] = loaded[y].rows[j]["practice_display"]}

RegionRows(y, icb) ==
    {j \in DOMAIN loaded[y].rows : loaded[y].rows[j]["ICB name"] = icb}

PlaceTotal(y, place, c) == SumOver(MemberRows(y, place), y, c)

RegionTotal(y, icb, c) == SumOver(RegionRows(y, icb), y, c)

OwningIcb(place) == session_state.entries[place].icb

\* v is the float quotient a / b of two non-negative integers
IsQuotient(v, a, b) ==
    IF b = 0 THEN (IF a = 0 THEN v.k = "nan" ELSE v.k = "inf") ELSE v = Float(a, b)

\* v is the float quotient (a / b) / r of two non-negative integers and a
\* float r
IsQuotientBy(v, a, b, r) ==
    IF r.k = "nan" \/ (a = 0 /\ b = 0) THEN v.k = "nan"
    ELSE IF b = 0 THEN (IF r.k = "inf" THEN v.k = "nan" ELSE v.k = "inf")
    ELSE IF r.k = "inf" THEN v = Zero
    ELSE IF r.n = 0 THEN (IF a = 0 THEN v.k = "nan" ELSE v.k = "inf")
    ELSE v = Float(a * r.d, b * r.n)

----------------------------------------------------------------------------
(* Properties of get_index and get_data_for_all_years, checked under Spec *)

\* the last iteration of the place loop got through get_index
IndexComputed == place_no > 1 /\ err # "ValueError"

LastPlace == session_state.places[place_no - 1]

\* C1: for every year, place and measure i, get_index leaves in the ICB
\* frame index i = (sum of numerator i over the ICB's practices) / (sum of
\* GP pop over them), and in the place frame index i = ((sum of numerator i
\* over the member practices) / (sum of GP pop over them)) / ICB index i;
\* the sums in both frames are the sums over those practices.
C1_IndexFormula ==
    IndexComputed =>
        LET icb == OwningIcb(LastPlace)
        IN  /\ Len(icb_indices.rows) = (IF RegionRows(year, icb) = {} THEN 0 ELSE 1)
            /\ Len(place_indices.rows) = (IF MemberRows(year, LastPlace) = {} THEN 0 ELSE 1)
            /\ \A j \in DOMAIN icb_indices.rows :
                 /\ \A c \in aggregations :
                      icb_indices.rows[j][c] = Float(RegionTotal(year, icb, c), 2)
                 /\ \A i \in DOMAIN index_names :
                      IsQuotient(icb_indices.rows[j][index_names[i]],
                                 RegionTotal(year, icb, index_numerator[i]),
                                 RegionTotal(year, icb, "GP pop"))
            /\ \A j \in DOMAIN place_indices.rows :
                 /\ \A c \in aggregations :
                      place_indices.rows[j][c] = Float(PlaceTotal(year, LastPlace, c), 2)
                 /\ \A i \in DOMAIN index_names :
                      IsQuotientBy(place_indices.rows[j][index_names[i]],
                                   PlaceTotal(year, LastPlace, index_numerator[i]),
                                   PlaceTotal(year, LastPlace, "GP pop"),
                                   icb_indices.rows[j][index_names[i]])

\* Place A (practices 1 and 2) in a full year: ICB index 510/500, place
\* index (300/300) / (510/500)
C1_Witness ==
    /\ IndexComputed
    /\ LastPlace = "Place A"
    /\ Len(place_indices.rows) = 1
    /\ icb_indices.rows[1]["Overall Core Index"] = Float(51, 50)
    /\ place_indices.rows[1]["Overall Core Index"] = Float(50, 51)
    /\ place_indices.rows[1]["G&A Index"] = Float(595 * 1000, 600 * 985)

\* the member practices of the place are exactly the practices of its ICB
\* in the table of year y
WholeRegion(y, place) ==
    {session_state.entries[place].gps[m] : m \in DOMAIN session_state.entries[place].gps}
      = {loaded[y].rows[j]["practice_display"] : j \in RegionRows(y, OwningIcb(place))}

RowsNamed(y, name) ==
    {j \in DOMAIN dataset_dict[y].rows : dataset_dict[y].rows[j]["Place / ICB"] = name}

\* C2, as claimed: a place made of all practices of its ICB in a year has
\* index 1.000 for each of the nine measures in that year's result.
C2_WholeRegionAllOnes ==
    \A y \in Years : Processed(y) =>
        \A place \in Range(session_state.places) : WholeRegion(y, place) =>
            /\ RowsNamed(y, place) # {}
            /\ \A j \in RowsNamed(y, place) : \A i \in DOMAIN index_names :
                 dataset_dict[y].rows[j][index_names[i]] = One

\* C2, amended: a place made of all practices of its ICB in a year has, in
\* that year's result, index 1.000 for every measure whose sum over the ICB
\* and the ICB's population are both not zero, and NaN for any other measure.
C2_WholeRegionOneOrNaN ==
    \A y \in Years : Processed(y) =>
        \A place \in Range(session_state.places) : WholeRegion(y, place) =>
            /\ RowsNamed(y, place) # {}
            /\ \A j \in RowsNamed(y, place) : \A i \in DOMAIN index_names :
                 dataset_dict[y].rows[j][index_names[i]]
                   = (IF /\ RegionTotal(y, OwningIcb(place), index_numerator[i]) # 0
                         /\ RegionTotal(y, OwningIcb(place), "GP pop") # 0
                      THEN One ELSE NaN)

\* Place C is all of ICB2 in a year whose file has no maternity figures for
\* ICB2: maternity index NaN, the others 1.000
C2_Witness ==
    \E y \in Years :
        /\ Processed(y)
        /\ "Place C" \in Range(session_state.places)
        /\ WholeRegion(y, "Place C")
        /\ RegionTotal(y, ICB2, "Weighted Maternity pop") = 0
        /\ \E j \in RowsNamed(y, "Place C") :
             /\ dataset_dict[y].rows[j]["Maternity Index"] = NaN
             /\ dataset_dict[y].rows[j]["Overall Core Index"] = One

\* n/d (d > 0) rounded half-up to three decimals
HalfUp3(n, d) ==
    LET g == GCD(n, d) IN Float((2000 * (n \div g) + (d \div g)) \div (2 * (d \div g)), 1000)

\* the index of an ICB from its unrounded totals rn, rp
RegionIndexFrom(rn, rp) ==
    IF rp = 0 THEN (IF rn = 0 THEN NaN ELSE PosInf) ELSE HalfUp3(rn, rp)

\* the index of a place from its unrounded totals pn, pp and its ICB's rn, rp
PlaceIndexFrom(pn, pp, rn, rp) ==
    IF (pn = 0 /\ pp = 0) \/ (rn = 0 /\ rp = 0) THEN NaN
    ELSE IF pp = 0 THEN (IF rp = 0 THEN NaN ELSE PosInf)
    ELSE IF rp = 0 THEN Zero
    ELSE IF rn = 0 THEN (IF pn = 0 THEN NaN ELSE PosInf)
    ELSE HalfUp3(pn * rp, pp * rn)

IsPlaceIndexRow(y, row, place) ==
    /\ row["Place / ICB"] = place
    /\ MemberRows(y, place) # {}
    /\ \A i \in DOMAIN index_names :
         row[index_names[i]] =
           PlaceIndexFrom(PlaceTotal(y, place, index_numerator[i]),
                          PlaceTotal(y, place, "GP pop"),
                          RegionTotal(y, OwningIcb(place), index_numerator[i]),
                          RegionTotal(y, OwningIcb(place), "GP pop"))

IsRegionIndexRow(y, row, icb) ==
    /\ row["Place / ICB"] = icb
    /\ RegionRows(y, icb) # {}
    /\ \A i \in DOMAIN index_names :
         row[index_names[i]] =
           RegionIndexFrom(RegionTotal(y, icb, index_numerator[i]),
                           RegionTotal(y, icb, "GP pop"))

\* C3: rounding happens in the final step only: every index value of a
\* year's result is the half-up rounding to three decimals of the ratio of
\* the unrounded sums (of the place, or of the ICB, the row stands for).
C3_IndexFromUnroundedTotals ==
    \A y \in Years : Processed(y) =>
        \A j \in DOMAIN dataset_dict[y].rows :
            \E place \in Range(session_state.places) :
                \/ IsPlaceIndexRow(y, dataset_dict[y].rows[j], place)
                \/ IsRegionIndexRow(y, dataset_dict[y].rows[j], OwningIcb(place))

\* ICB pop 500 / weighted 510, place pop 300 / weighted 300: 1.020 and 0.980
C3_Witness ==
    \E y \in Years :
        /\ Processed(y)
        /\ RegionTotal(y, ICB1, "GP pop") = 2 * 500
        /\ RegionTotal(y, ICB1, "Overall Weighted pop") = 2 * 510
        /\ "Place A" \in Range(session_state.places)
        /\ PlaceTotal(y, "Place A", "GP pop") = 2 * 300
        /\ PlaceTotal(y, "Place A", "Overall Weighted pop") = 2 * 300
        /\ \E j \in RowsNamed(y, ICB1) :
             dataset_dict[y].rows[j]["Overall Core Index"] = Float(1020, 1000)
        /\ \E j \in RowsNamed(y, "Place A") :
             /\ dataset_dict[y].rows[j]["Overall Core Index"] = Float(980, 1000)
             /\ dataset_dict[y].rows[j]["G&A Index"] = Float(1007, 1000)

\* the totals of the place or ICB a result row stands for, by column
IsRowOf(y, row, place, total(_)) ==
    \/ /\ row["Place / ICB"] = place
       /\ MemberRows(y, place) # {}
       /\ \A c \in aggregations : row[c] = total(PlaceTotal(y, place, c))
    \/ /\ row["Place / ICB"] = OwningIcb(place)
       /\ RegionRows(y, OwningIcb(place)) # {}
       /\ \A c \in aggregations : row[c] = total(RegionTotal(y, OwningIcb(place), c))

ThreeDecimals(v) == v.k = "nan" \/ (v.k = "fin" /\ 1000 % v.d = 0)

\* a total of h halves rounded to one decimal place: unchanged
ToOneDecimal(h) == Float(h, 2)

\* a total of h halves rounded half-up to a whole number
ToWholeNumber(h) == Float((h + 1) \div 2, 1)

\* C4, as claimed: in every year table each summed measure and the
\* population is the unrounded sum rounded to one decimal place, and each
\* index has three decimals.
C4_SumsToOneDecimal ==
    \A y \in Years : Processed(y) =>
        \A j \in DOMAIN dataset_dict[y].rows :
            /\ \E place \in Range(session_state.places) :
                 IsRowOf(y, dataset_dict[y].rows[j], place, ToOneDecimal)
            /\ \A i \in DOMAIN index_names :
                 ThreeDecimals(dataset_dict[y].rows[j][index_names[i]])

\* C4, amended: in every year table each summed measure and the population
\* is the unrounded sum rounded half-up to the nearest whole number, and each
\* index has three decimals.
C4_SumsToWholeNumber ==
    \A y \in Years : Processed(y) =>
        \A j \in DOMAIN dataset_dict[y].rows :
            /\ \E place \in Range(session_state.places) :
                 IsRowOf(y, dataset_dict[y].rows[j], place, ToWholeNumber)
            /\ \A i \in DOMAIN index_names :
                 ThreeDecimals(dataset_dict[y].rows[j][index_names[i]])

\* Place A's G&A total is 297.5 and is reported as 298
C4_Witness ==
    \E y \in Years :
        /\ Processed(y)
        /\ "Place A" \in Range(session_state.places)
        /\ PlaceTotal(y, "Place A", "Weighted G&A pop") = 595
        /\ \E j \in RowsNamed(y, "Place A") :
             /\ dataset_dict[y].rows[j]["Weighted G&A pop"] = Float(298, 1)
             /\ dataset_dict[y].rows[j]["G&A Index"] = Float(1007, 1000)

\* the ICBs of the places, in order of first reference
RECURSIVE IcbOrder(_)
IcbOrder(names) ==
    IF names = << >> THEN << >>
    ELSE LET front == IcbOrder(SubSeq(names, 1, Len(names) - 1))
             icb   == OwningIcb(names[Len(names)])
         IN  IF \E j \in DOMAIN front : front[j] = icb THEN front ELSE Append(front, icb)

PlacesOf(icb) == SelectSeq(session_state.places, LAMBDA nm : OwningIcb(nm) = icb)

RECURSIVE Blocks(_)
Blocks(icbs) ==
    IF icbs = << >> THEN << >>
    ELSE <<Head(icbs)>> \o PlacesOf(Head(icbs)) \o Blocks(Tail(icbs))

\* the "Place / ICB" column of the result table of year y
Discriminators(y) ==
    [j \in DOMAIN dataset_dict[y].rows |-> dataset_dict[y].rows[j]["Place / ICB"]]

\* C9: in every year table the rows are, for each distinct owning ICB in
\* order of first reference in the place list, the ICB's row followed
\* immediately by the rows of every place of that ICB in place-list order.
C9_RowOrder ==
    \A y \in Years : Processed(y) =>
        Discriminators(y) = Blocks(IcbOrder(session_state.places))

\* C10: every year table has exactly one row per referenced ICB and one row
\* per place: (number of distinct ICBs + number of places) rows.
C10_RowCount ==
    \A y \in Years : Processed(y) =>
        /\ \A place \in Range(session_state.places) :
             /\ Cardinality(RowsNamed(y, place)) = 1
             /\ Cardinality(RowsNamed(y, OwningIcb(place))) = 1
        /\ Len(dataset_dict[y].rows)
             = Cardinality({OwningIcb(place) : place \in Range(session_state.places)})
               + Len(session_state.places)

----------------------------------------------------------------------------
(* Properties of aggregate, checked under SpecAggregate *)

\* the value of the grouping column on row j of the frame df handed to
\* aggregate with the arguments of agg_in
GroupKey(df, j) == IF agg_in.on \in df.columns THEN df.rows[j][agg_in.on] ELSE agg_in.name

\* the sum, in halves, of column c over the rows J of df
RECURSIVE HalvesOver(_, _, _)
HalvesOver(df, J, c) ==
    IF J = {} THEN 0
    ELSE LET j == CHOOSE x \in J : TRUE
         IN  Halves(df.rows[j][c]) + HalvesOver(df, J \ {j}, c)

Returned(c) == agg_out[c] # Pending

\* C11: the grouped frame aggregate returns has one row per value of the
\* grouping column, holding for the population and each of the nine weighted
\* populations the sum over all input rows of that group; when the grouping
\* column is absent, the returned table has it with `name` on every row and
\* all rows fall in the single group `name`.
C11_AggregateSums ==
    \A c \in AggCalls : Returned(c) =>
        LET inp == agg_in[c]
            out == agg_out[c].val
            grp == out.df_group
        IN  /\ Range(grp.index) = {GroupKey(inp, j) : j \in DOMAIN inp.rows}
            /\ \A g, h \in DOMAIN grp.index : grp.index[g] = grp.index[h] => g = h
            /\ DOMAIN grp.rows = DOMAIN grp.index
            /\ \A g \in DOMAIN grp.index : \A col \in aggregations :
                 grp.rows[g][col]
                   = Float(HalvesOver(inp, {j \in DOMAIN inp.rows :
                                               GroupKey(inp, j) = grp.index[g]}, col), 2)
            /\ agg_in.on \notin inp.columns =>
                 /\ agg_in.on \in out.df.columns
                 /\ \A j \in DOMAIN out.df.rows : out.df.rows[j][agg_in.on] = agg_in.name
                 /\ Range(grp.index) \subseteq {agg_in.name}

\* practices 1 and 2 grouped on the absent column "Place Name": one group
\* "Place A" with population 300 and G&A population 297.5
C11_Witness ==
    /\ Returned("ab")
    /\ agg_in.on = "Place Name"
    /\ Len(agg_in.a.rows) = 1
    /\ Len(agg_in.ab.rows) = 2
    /\ agg_out["ab"].val.df_group.index = <<"Place A">>
    /\ agg_out["ab"].val.df_group.rows[1]["GP pop"] = Float(300, 1)
    /\ agg_out["ab"].val.df_group.rows[1]["Weighted G&A pop"] = Float(595, 2)

\* the value of column col in the group k of the grouped frame of call c,
\* zero when the call had no row of that group
GroupTotal(c, k, col) ==
    LET grp == agg_out[c].val.df_group
    IN  IF \E g \in DOMAIN grp.index : grp.index[g] = k
        THEN grp.rows[CHOOSE g \in DOMAIN grp.index : grp.index[g] = k][col]
        ELSE Zero

GroupKeys(c) == Range(agg_out[c].val.df_group.index)

\* C13: aggregation is additive over disjoint practice sets: for disjoint
\* sets A and B of practice rows of one year, every summed measure of
\* aggregate(A \cup B) is the sum of that measure in aggregate(A) and in
\* aggregate(B), group by group.
C13_Additive ==
    (\A c \in AggCalls : Returned(c)) =>
        /\ GroupKeys("ab") = GroupKeys("a") \cup GroupKeys("b")
        /\ \A k \in GroupKeys("ab") : \A col \in aggregations :
             GroupTotal("ab", k, col)
               = FAdd(GroupTotal("a", k, col), GroupTotal("b", k, col))

\* practices {1} and {2, 3}: populations 100 + 350 = 450
C13_Witness ==
    /\ \A c \in AggCalls : Returned(c)
    /\ agg_in.on = "Place Name"
    /\ GroupTotal("a", "Place A", "GP pop") = Float(100, 1)
    /\ GroupTotal("b", "Place A", "GP pop") = Float(350, 1)
    /\ GroupTotal("ab", "Place A", "GP pop") = Float(450, 1)
    /\ GroupTotal("ab", "Place A", "Weighted G&A pop")
         = FAdd(GroupTotal("a", "Place A", "Weighted G&A pop"),
                GroupTotal("b", "Place A", "Weighted G&A pop"))

\* C15: aggregate has no side effects: the table passed in has the same
\* columns and values after the call as before it, whether or not the
\* grouping column was present.
C15_InputUnchanged ==
    \A c \in AggCalls : Returned(c) => agg_out[c].val.df = agg_in[c]

----------------------------------------------------------------------------
(* Properties of the calls of aggregate in get_data_for_all_years, checked *)
(* under Spec                                                              *)

\* the place loop has run aggregate at least once
Aggregated == place_groupby # NoFrame

\* C12: for every input get_data_for_all_years passes to aggregate (the rows
\* of a year filtered to a place's practices, or to its owning ICB), the
\* grouped output has exactly one row.
C12_OneGroupedRow ==
    Aggregated => (Len(place_groupby.rows) = 1 /\ Len(icb_groupby.rows) = 1)

\* C14, as claimed: get_data_for_all_years treats its inputs as read-only:
\* when it returns, the dataset collection maps every year to the practice
\* table it held at the call and the place collection is unchanged.
C14_InputsReadOnly ==
    pc = "returned" => (dataset_dict = loaded /\ session_state = previous)

\* a table produced by get_data_for_all_years: one row per place or ICB
IsResultTable(df) ==
    /\ "Place / ICB" \in df.columns
    /\ "practice_display" \notin df.columns
    /\ Range(index_names) \subseteq df.columns

\* C14, amended: get_data_for_all_years leaves the place collection
\* unchanged but stores its results in the dataset collection it was given:
\* every year it has finished maps to that year's result table in place of
\* the practice table, a year it has not finished still maps to the practice
\* table.
C14_DatasetOverwritten ==
    /\ session_state = previous
    /\ \A y \in Years :
         IF Processed(y)
         THEN IsResultTable(dataset_dict[y]) /\ dataset_dict[y] # loaded[y]
         ELSE dataset_dict[y] = loaded[y]

\* the call has returned and the first year holds the row of Place A
C14_Witness ==
    /\ pc = "returned"
    /\ session_state.places[1] = "Place A"
    /\ "practice_display" \in loaded[1].columns
    /\ \E j \in RowsNamed(1, "Place A") :
         dataset_dict[1].rows[j]["GP pop"] = Float(PlaceTotal(1, "Place A", "GP pop"), 2)

\* the member practices of the place that have no row in the table of year y
AbsentMembers(y, place) ==
    {m \in Range(session_state.entries[place].gps) :
        \A j \in DOMAIN loaded[y].rows : loaded[y].rows[j]["practice_display"] # m}

\* the table of year y has a row for the place with the totals of its
\* member practices present in that year
HasPlaceTotals(y, place) ==
    \E j \in RowsNamed(y, place) : \A c \in aggregations :
        dataset_dict[y].rows[j][c] = ToWholeNumber(PlaceTotal(y, place, c))

\* C16: when some member practices of a place are absent from a year's
\* dataset, get_data_for_all_years does not fail, the place's totals of that
\* year are the sums over the member practices present in it, and every
\* other year and place is computed too.
C16_AbsentPracticesSkipped ==
    (\E y \in Years : \E place \in Range(session_state.places) :
         AbsentMembers(y, place) # {}) =>
        /\ pc # "raised"
        /\ \A y \in Years : Processed(y) =>
             \A place \in Range(session_state.places) : HasPlaceTotals(y, place)

\* the owning ICB of the place has no row in the table of year y
RegionAbsent(y, place) == RegionRows(y, OwningIcb(place)) = {}

\* C17: when a place's owning ICB has no rows in a year's dataset,
\* get_data_for_all_years does not raise: it returns a table for that year
\* in which the place has a row whose index values are all NaN, and the
\* places whose ICB is present have their rows as in any other year.
C17_AbsentRegionNaN ==
    (\E y \in Years : \E place \in Range(session_state.places) : RegionAbsent(y, place)) =>
        /\ pc # "raised"
        /\ \A y \in Years : Processed(y) =>
             \A place \in Range(session_state.places) :
                IF RegionAbsent(y, place)
                THEN \E j \in RowsNamed(y, place) : \A i \in DOMAIN index_names :
                        dataset_dict[y].rows[j][index_names[i]] = NaN
                ELSE \E j \in RowsNamed(y, place) :
                        IsPlaceIndexRow(y, dataset_dict[y].rows[j], place)

----------------------------------------------------------------------------
(* Properties of the Save Place and Delete buttons, checked under          *)
(* SpecSession                                                             *)

\* the last script run was a Save Place click
SaveClicked == clicked.button = "save"

\* one of the three conditions the save is to be rejected on
InvalidInput ==
    \/ selected_practices = << >>
    \/ place_name = ""
    \/ place_name = "Default Place"

\* C18: a Save Place click with no practice selected, with an empty name or
\* with the name "Default Place" leaves the place list and every stored
\* place definition unchanged; the session changes only on a click where
\* none of the three holds.
C18_InvalidSaveRejected ==
    /\ (SaveClicked /\ InvalidInput) => (session_state = previous /\ clicked.exc = "none")
    /\ (SaveClicked /\ session_state # previous) => ~InvalidInput

\* "Default Place" typed with practices ticked, after North was saved
C18_Witness ==
    /\ SaveClicked
    /\ place_name = "Default Place"
    /\ selected_practices = <<1, 2>>
    /\ previous.places = <<"North">>
    /\ session_state = previous

\* the places of the list before the click, the built-in place that a first
\* save replaces left aside
PlacesBefore ==
    IF previous.places = <<"Default Place">> THEN << >> ELSE previous.places

\* C19: an accepted save under a name already in the list replaces that
\* place's practices and ICB by the selected ones and leaves the list as it
\* was (same position, never twice); an accepted save under a new name
\* appends the name at the end of the list; every other place keeps its
\* definition.
C19_SaveReplacesOrAppends ==
    (SaveClicked /\ ~InvalidInput) =>
        /\ place_name \in DOMAIN session_state.entries
        /\ session_state.entries[place_name] = Entry(selected_practices, icb_choice)
        /\ \A a, b \in DOMAIN session_state.places :
             session_state.places[a] = session_state.places[b] => a = b
        /\ session_state.places
             = (IF place_name \in Range(previous.places)
                THEN previous.places
                ELSE Append(PlacesBefore, place_name))
        /\ \A p \in Range(PlacesBefore) \ {place_name} :
             /\ p \in DOMAIN session_state.entries
             /\ p \in DOMAIN previous.entries
             /\ session_state.entries[p] = previous.entries[p]

\* C20: a new session has the place list ["Default Place"]; an accepted save
\* made while "Default Place" is the only place removes it from the list and
\* from the stored definitions; and whatever saves and deletes were made,
\* "Default Place" is in the list only as its sole element.
C20_DefaultPlaceOnlyAlone ==
    /\ clicked.button = "none" => session_state.places = <<"Default Place">>
    /\ (SaveClicked /\ ~InvalidInput /\ previous.places = <<"Default Place">>) =>
         /\ "Default Place" \notin Range(session_state.places)
         /\ "Default Place" \notin DOMAIN session_state.entries
    /\ "Default Place" \in Range(session_state.places) =>
         session_state.places = <<"Default Place">>

\* the first save, of North, has replaced the built-in place
C20_Witness ==
    /\ SaveClicked
    /\ previous.places = <<"Default Place">>
    /\ place_name = "North"
    /\ session_state.places = <<"North">>
    /\ DOMAIN session_state.entries = {"North"}

\* the last script run had the Delete Current Selection button pressed
DeleteClicked == clicked.button = "delete"

\* the places before the run without the one that was active, in their order
OtherPlaces == SelectSeq(previous.places, LAMBDA p : p # clicked.active)

C26_PlaceListWellFormed ==
    LET places == session_state.places
    IN  /\ places # << >>
        /\ \A i, j \in 1..Len(places) : places[i] = places[j] => i = j
        /\ \A i \in 1..Len(places) :
              /\ places[i] \in DOMAIN session_state.entries
              /\ session_state.entries[places[i]].gps # << >>
              /\ session_state.entries[places[i]].icb \in {ICB1, ICB2, ICB3}

\* C25: excel_round never raises for an int or float argument, NaN and the
\* infinities included: it returns the rounded number, or the argument
\* unchanged when the decimal conversion or the quantization fails.
C25_NumericNeverRaises ==
    (rounded # Pending /\ IsNumeric(number)) =>
        /\ rounded.exc = "none"
        /\ IF number.k = "fin" THEN rounded.val.k = "fin" ELSE rounded.val = number

\* the row of year y's table for `name` holds exactly the totals and indices
\* computed from the practice table of the year and from members and owning
\* region of the place alone
PlaceRowFromOwnInputs(y, row, place) ==
    /\ IsPlaceIndexRow(y, row, place)
    /\ \A c \in aggregations : row[c] = ToWholeNumber(PlaceTotal(y, place, c))

\* the row of an ICB holds the totals of the ICB's practices and their
\* per-capita ratios, not divided by anything else
RegionRowFromOwnInputs(y, row, icb) ==
    /\ IsRegionIndexRow(y, row, icb)
    /\ \A c \in aggregations : row[c] = ToWholeNumber(RegionTotal(y, icb, c))

\* C30: rows of a year table do not depend on unrelated places.  In every
\* year table, whatever the place collection and the order of its places, an
\* ICB has a row exactly when it has practices in the year, that row holding
\* the totals of the ICB and its raw per-capita ratios (rounded as every
\* cell of the table is); and a place has a row exactly when it has members
\* in the year, that row being determined by the year's practice table, the
\* place's members and its owning region alone.
C30_RowsIndependentOfOtherPlaces ==
    \A y \in Years : Processed(y) =>
        \A place \in Range(session_state.places) :
            /\ Cardinality(RowsNamed(y, place))
                 = (IF MemberRows(y, place) # {} THEN 1 ELSE 0)
            /\ \A j \in RowsNamed(y, place) :
                 PlaceRowFromOwnInputs(y, dataset_dict[y].rows[j], place)
            /\ Cardinality(RowsNamed(y, OwningIcb(place)))
                 = (IF RegionRows(y, OwningIcb(place)) # {} THEN 1 ELSE 0)
            /\ \A j \in RowsNamed(y, OwningIcb(place)) :
                 RegionRowFromOwnInputs(y, dataset_dict[y].rows[j], OwningIcb(place))

\* Place A listed after Place B of the same ICB and before a place of
\* another ICB: its row and its ICB's row are those it has when listed alone
C30_Witness ==
    \E y \in Years :
        /\ Processed(y)
        /\ session_state.places = <<"Place B", "Place A", "Place C">>
        /\ \E j \in RowsNamed(y, ICB1) :
             /\ dataset_dict[y].rows[j]["Overall Core Index"] = Float(1020, 1000)
             /\ dataset_dict[y].rows[j]["GP pop"] = Float(500, 1)
        /\ \E j \in RowsNamed(y, "Place A") :
             /\ dataset_dict[y].rows[j]["Overall Core Index"] = Float(980, 1000)
             /\ dataset_dict[y].rows[j]["Weighted G&A pop"] = Float(298, 1)

\* the last script run imported the file
UploadClicked == clicked.button = "upload"

\* C22: every place collection reached by saves and deletes can be exported,
\* and importing the document the Download button gave yields the place
\* collection the session had at the download: the same list of names in the
\* same order and, for each name, the same member practices and the same ICB.
C22_ExportImportRoundTrip ==
    /\ session_state_dump.exc = "none"
    /\ UploadClicked =>
         /\ clicked.exc = "none"
         /\ session_state.places = group_file.exported.places
         /\ \A j \in DOMAIN session_state.places :
                session_state.entries[session_state.places[j]]
                  = group_file.exported.entries[session_state.places[j]]

----------------------------------------------------------------------------
(* Properties of the page body, checked under SpecPage *)

\* the map loop has raised
MapRaised == pc = "raised" /\ gp_no <= Len(group_gp_list)

\* get_data_for_all_years has aggregated a place
IndicesStarted == place_groupby # NoFrame

\* the member practices the map loop has dealt with
MapVisited == SubSeq(group_gp_list, 1, gp_no - 1)

HasRow(gp) == DisplayRows(loaded[selected_year], gp) # {}

\* C24: the map loop never raises; every member practice of the active
\* place it has dealt with that has no row in the selected year's table has
\* one message, in order, and every one that has a row has a marker.
C24_MissingPracticesReported ==
    /\ ~MapRaised
    /\ messages = SelectSeq(MapVisited, LAMBDA gp : ~HasRow(gp))
    /\ lat = SelectSeq(MapVisited, HasRow)

\* C23, as claimed: when some place has no member practice in some year's
\* table, get_data_for_all_years is not run and nothing is displayed.
C23_NoEmptyPlaceAggregated ==
    (\E place \in Range(session_state.places) : \E y \in Years : MemberRows(y, place) = {})
        => (~IndicesStarted /\ displayed = Pending)

\* C23, amended: when the active place has no member practice with a row in
\* the table of the selected year, the script run ends after the map loop
\* (st.stop, or an exception of the loop) before get_data_for_all_years is
\* called, and nothing is displayed.
C23_ActivePlaceChecked ==
    MemberRows(selected_year, after) = {}
        => /\ pc \in {"map", "stopped", "raised"}
           /\ ~IndicesStarted
           /\ displayed = Pending

\* Place D (practice 1) in a year whose file has no row for practice 1: one
\* message, no marker, st.stop
C23_Witness ==
    /\ pc = "stopped"
    /\ after = "Place D"
    /\ MemberRows(selected_year, after) = {}
    /\ messages = <<1>>
    /\ lat = << >>

\* a float of three decimals, or NaN, rounded half-up to two decimals
TwoDecimals(v) ==
    IF v.k # "fin" THEN v ELSE Float((200 * v.n + v.d) \div (2 * v.d), 100)

\* n/d (d > 0) rounded half-up to two decimals
HalfUp2(n, d) == Float((200 * n + d) \div (2 * d), 100)

\* the index of a place from its unrounded totals and its ICB's, rounded
\* half-up to two decimals in one step
PlaceIndexTwoDecimals(pn, pp, rn, rp) ==
    IF (pn = 0 /\ pp = 0) \/ (rn = 0 /\ rp = 0) THEN NaN
    ELSE IF pp = 0 THEN (IF rp = 0 THEN NaN ELSE PosInf)
    ELSE IF rp = 0 THEN Zero
    ELSE IF rn = 0 THEN (IF pn = 0 THEN NaN ELSE PosInf)
    ELSE HalfUp2(pn * rp, pp * rn)

\* the index numerator column of a metric column
NumeratorOf(m) == index_numerator[IndexOf(index_names, m)]

\* the index of the active place in the selected year, by metric column,
\* rounded as the table rounds it
ActivePlaceIndex(m) ==
    PlaceIndexFrom(PlaceTotal(selected_year, after, NumeratorOf(m)),
                   PlaceTotal(selected_year, after, "GP pop"),
                   RegionTotal(selected_year, OwningIcb(after), NumeratorOf(m)),
                   RegionTotal(selected_year, OwningIcb(after), "GP pop"))

Shown == displayed # Pending

\* C27: in every year table no two rows have the same "Place / ICB" value,
\* and the metrics shown for the active place are those of the place's own
\* row: its own index values of the selected year.
C27_MetricsFromOwnRow ==
    /\ \A y \in Years : Processed(y) =>
          \A i, j \in DOMAIN dataset_dict[y].rows :
              dataset_dict[y].rows[i]["Place / ICB"] = dataset_dict[y].rows[j]["Place / ICB"]
                => i = j
    /\ Shown => \A m \in Range(metric_cols) :
                    displayed.val[m] = TwoDecimals(ActivePlaceIndex(m))

\* C28, as claimed: each metric shown equals the unrounded index ratio of
\* the active place rounded half-up to two decimals.
C28_TwoDecimalsOfRatio ==
    Shown => \A m \in Range(metric_cols) :
        displayed.val[m]
          = PlaceIndexTwoDecimals(PlaceTotal(selected_year, after, NumeratorOf(m)),
                                  PlaceTotal(selected_year, after, "GP pop"),
                                  RegionTotal(selected_year, OwningIcb(after), NumeratorOf(m)),
                                  RegionTotal(selected_year, OwningIcb(after), "GP pop"))

\* the first row of the selected year's table named like the active place
FirstRowNamed ==
    LET rows == dataset_dict[selected_year].rows
    IN  rows[CHOOSE j \in DOMAIN rows :
                /\ rows[j]["Place / ICB"] = after
                /\ \A i \in DOMAIN rows : rows[i]["Place / ICB"] = after => j <= i]

\* C28, amended: each metric shown equals the three-decimal index value of
\* the first table row named like the active place, rounded half-up to two
\* decimals (NaN stays NaN); when no ICB row has that name, this is the
\* unrounded ratio of the place rounded half-up to three and then to two
\* decimals.
C28_TwoDecimalsOfTableValue ==
    Shown =>
        /\ \A m \in Range(metric_cols) : displayed.val[m] = TwoDecimals(FirstRowNamed[m])
        /\ after # OwningIcb(after) =>
             \A m \in Range(metric_cols) :
                 displayed.val[m] = TwoDecimals(ActivePlaceIndex(m))

\* Place E (practice 4): maternity ratio 0.87475..., 0.875 in the table,
\* shown as 0.88 where the ratio rounds to 0.87
C28_Witness ==
    /\ Shown
    /\ after = "Place E"
    /\ FirstRowNamed["Maternity Index"] = Float(875, 1000)
    /\ displayed.val["Maternity Index"] = Float(88, 100)

----------------------------------------------------------------------------
(* Properties of the practice selection, checked under SpecSelect *)

\* the ICB the selected year's table lists the practice gp under, if any
ListedUnder(gp, icb) ==
    \E j \in DOMAIN loaded[selected_year].rows :
        /\ loaded[selected_year].rows[j]["practice_display"] = gp
        /\ loaded[selected_year].rows[j]["ICB name"] = icb

\* C29: after any sequence of ICB changes, district ticks, Select all /
\* Deselect all clicks and practice ticks, every practice of a place stored
\* by a save is listed, in the selected year's table, under the ICB stored
\* with that place.
C29_SavedPracticesOfStoredIcb ==
    \A name \in Range(session_state.places) \ {"Default Place"} :
        \A m \in DOMAIN session_state.entries[name].gps :
            ListedUnder(session_state.entries[name].gps[m], session_state.entries[name].icb)

\* a place saved from ticks under the first ICB, then the ICB changed, a
\* practice ticked and the place saved again
C29_Witness ==
    /\ clicked.button = "save"
    /\ previous.places = <<"North">>
    /\ previous.entries["North"].icb = ICB1
    /\ Len(previous.entries["North"].gps) > 1
    /\ session_state.places = <<"North">>
    /\ session_state.entries["North"].icb # ICB1
    /\ session_state.entries["North"].gps = <<5>>

====
